---- MODULE Spec2Model ----
(***************************************************************************)
(* Model of the room session adapter of src/src/App.jsx: the React state   *)
(* of the App component, the promise-returning SDK commands it relays, and  *)
(* the notification handlers that setupEventListeners registers on a        *)
(* client.                                                                  *)
(*                                                                          *)
(* Every action is one handler run to its next await (or to its end),       *)
(* followed by the React commit it causes: the ref callbacks of the         *)
(* elements rendered for the new state and the screen-share effect.         *)
(* An SDK promise in flight is an entry of the bag `pending`; it resolves   *)
(* or rejects in a later action. Notifications are chosen by the            *)
(* environment: any client that has handlers registered may emit any        *)
(* notification at any time.                                                *)
(***************************************************************************)
EXTENDS Integers, Sequences, FiniteSets, Bags, TLC

\* ------------------------------------------------------------------ bounds
MaxPeers == 2      \* participant ids the SDK can name
MaxClients == 2    \* client instances samvyo.JsSdk.init can return
MaxPending == 2    \* SDK / backend promises in flight at once
MaxRoomLen == 1    \* characters typed into the room id field
MaxChat == 2       \* entries the chat log can hold
MaxRequests == 2   \* pending authentication requests

\* ------------------------------------------------------------------ values
Null == 0                      \* vidScaleClient when no client is stored
NoStream == "nostream"         \* srcObject of a surface with nothing attached
NoTrack == "notrack"           \* a notification that carries no track
PeerIds == 1..MaxPeers
Clients == 1..MaxClients
Types == {"local", "remote"}
PeerNames == {"Alice", "Bob"}
Tracks == {"track"}
Chars == {" ", "d", "e"}
Tokens == {"tokA", "tokB"}     \* session tokens the backend can return
NoToken == ""                  \* sessionToken before any fetch
DeviceIds == {"dev1", "dev2"}
NoDevice == ""                 \* selected*DeviceId before any device list
DeviceLists == {<<>>, <<"dev1">>, <<"dev1", "dev2">>, <<"dev2", "dev1">>}
Everyone == 0                  \* selectedChatReceiver 'everyone'
Me == 0                        \* sender 'me' of a chat entry
RequestTypes == {"moderator", "request"}
MessageTypes == {"chat", "widget", "other"}

RoomIds == UNION {[1..n -> Chars] : n \in 0..MaxRoomLen}

EmptyMap == <<>>

ToggleKinds == {"mic", "camera", "share", "recording"}

VARIABLES
  roomId,           \* useState('')          line 32
  isInitialized,    \* useState(false)       line 35
  isJoined,         \* useState(false)       line 36
  loading,          \* useState(false)       line 37
  error,            \* useState('')          line 38
  vidScaleClient,   \* useState(null)        line 41
  peers,            \* useState(new Map())   line 50
  screenShares,     \* useState(new Map())   line 51
  isMuted,          \* useState(false)       line 56
  isCameraOn,       \* useState(true)        line 57
  isScreenSharing,  \* useState(false)       line 58
  isRecording,      \* useState(false)       line 59
  videoRefs,        \* useRef(new Map())     line 79: peer id -> srcObject of the element
  audioRefs,        \* useRef(new Map())     line 80
  screenShareRefs,  \* useRef(new Map())     line 81
  pending,          \* bag of promises in flight (backend fetch, SDK calls)
  listeners,        \* clients on which setupEventListeners has registered handlers
  created,          \* number of clients samvyo.JsSdk.init has returned
  sessionToken,     \* useState('')          line 34
  chatMessages,     \* useState([])          line 63
  chatInput,        \* useState('')          line 64
  selectedChatReceiver, \* useState('everyone') line 65
  widgetPopups,     \* useState([])          line 70
  authRequests,     \* useState([])          line 74
  audioDevices,     \* useState([])          line 44
  videoDevices,     \* useState([])          line 45
  selectedAudioDeviceId, \* useState('')     line 46
  selectedVideoDeviceId, \* useState('')     line 47
  listing,          \* listDevices calls of getAllDevices in flight
  showSettings,     \* useState(false)       line 54
  showChat,         \* useState(false)       line 62
  showWidgets,      \* useState(false)       line 68
  lastEvent,        \* history: the handler step taken last
  lastNote,         \* history: per peer id, the last of newPeer / peerLeft since teardown
  enteredBy,        \* history: entry notifications delivered since the session was last left
  missed,           \* history: <<kind, peer id>> of track starts that found no surface
  burst,            \* history: the flags read by the toggleMic calls resolved since its last click
  lastShare,        \* history: per peer id, the last of ssVideoStart / ssVideoStop since teardown
  dropped           \* history: a client emitted a notification before handlers were registered

sessVars == <<roomId, isInitialized, isJoined, loading, error, vidScaleClient>>
mapVars == <<peers, screenShares>>
flagVars == <<isMuted, isCameraOn, isScreenSharing, isRecording>>
refVars == <<videoRefs, audioRefs, screenShareRefs>>
sdkVars == <<pending, listeners, created>>
histVars == <<lastEvent, lastNote, enteredBy, missed, burst, lastShare, dropped>>
chatVars == <<chatMessages, chatInput, selectedChatReceiver>>
deviceVars ==
  <<audioDevices, videoDevices, selectedAudioDeviceId, selectedVideoDeviceId, listing>>
showVars == <<showSettings, showChat, showWidgets>>
panelVars == <<chatVars, widgetPopups, authRequests, deviceVars, showVars>>
uiVars == <<sessionToken, panelVars>>
vars == <<sessVars, mapVars, flagVars, refVars, sdkVars, uiVars, histVars>>

\* ----------------------------------------------------------------- helpers
\* String.prototype.trim on a sequence of characters
RECURSIVE TrimLeft(_)
TrimLeft(s) == IF s # <<>> /\ Head(s) = " " THEN TrimLeft(Tail(s)) ELSE s

RECURSIVE TrimRight(_)
TrimRight(s) ==
  IF s # <<>> /\ s[Len(s)] = " " THEN TrimRight(SubSeq(s, 1, Len(s) - 1)) ELSE s

Trim(s) == TrimRight(TrimLeft(s))

\* Map.prototype.delete / Map.prototype.set on a function
MapDelete(m, k) == [x \in (DOMAIN m) \ {k} |-> m[x]]
MapSet(m, k, v) == [x \in (DOMAIN m) \cup {k} |-> IF x = k THEN v ELSE m[x]]

\* What a call to the backend or the SDK carries besides the toggle flag.
NoArg == [token |-> NoToken, roomId |-> <<>>, peerId |-> Null, deviceId |-> NoDevice]

EventA(n, p, t, tr, f, a) ==
  [name |-> n, peerId |-> p, type |-> t, track |-> tr, flag |-> f, arg |-> a]
EventT(n, p, t, tr) == EventA(n, p, t, tr, FALSE, NoArg)
Event(n, p, t) == EventT(n, p, t, NoTrack)
NoNotes == [p \in PeerIds |-> "none"]

\* History of the handler steps taken, kept for stating the properties.
Teardowns == {"leaveResolve", "closeResolve", "roomClosed"}

Record(e) ==
  /\ lastEvent' = e
  /\ lastNote' =
       CASE e.name = "newPeer" -> [lastNote EXCEPT ![e.peerId] = "newPeer"]
         [] e.name = "peerLeft" -> [lastNote EXCEPT ![e.peerId] = "peerLeft"]
         [] e.name \in Teardowns -> NoNotes
         [] OTHER -> lastNote
  /\ enteredBy' =
       CASE e.name = "joinSuccess" -> enteredBy \cup {"joinSuccess"}
         [] e.name = "newPeer" /\ e.type = "local" -> enteredBy \cup {"newPeer"}
         [] e.name \in Teardowns \cup {"joinError"} -> {}
         [] OTHER -> enteredBy
  /\ missed' =
       CASE e.name = "videoStart" /\ e.track # NoTrack
              /\ e.peerId \notin DOMAIN videoRefs -> missed \cup {<<"video", e.peerId>>}
         [] e.name = "micStart" /\ e.track # NoTrack /\ e.type = "remote"
              /\ e.peerId \notin DOMAIN audioRefs -> missed \cup {<<"audio", e.peerId>>}
         [] e.name \in Teardowns -> {}
         [] OTHER -> missed
  /\ burst' =
       CASE e.name = "mic" -> <<>>
         [] e.name = "toggleResolve" /\ e.type = "mic" -> Append(burst, e.flag)
         [] OTHER -> burst
  /\ lastShare' =
       CASE e.name \in {"ssVideoStart", "ssVideoStop"} ->
              [lastShare EXCEPT ![e.peerId] = e.name]
         [] e.name \in Teardowns -> NoNotes
         [] OTHER -> lastShare
  /\ dropped' = (dropped \/ e.name = "emitEarly")

CallA(o, c, f, a) == [op |-> o, client |-> c, flag |-> f, arg |-> a]
Call(o, c, f) == CallA(o, c, f, NoArg)
InFlight == BagCardinality(pending)
Issue(c) == pending (+) SetToBag({c})
Settle(c) == pending (-) SetToBag({c})
Calls(o) == {c \in BagToSet(pending) : c.op = o}

\* ------------------------------------------------------------ React commit
\* Elements rendered for a state: the video grid and the screen-share area
\* are inside the isJoined branch of the JSX. Every participant is on page 1
\* (MaxPeers < PARTICIPANTS_PER_PAGE), so paginatedPeers is all of peers.
PARTICIPANTS_PER_PAGE == 10
Shown(joined, m) == IF joined THEN DOMAIN m ELSE {}

\* The ref callbacks of the rendered elements: an element that is newly
\* mounted is a fresh one (no srcObject) and replaces whatever the registry
\* held under its key; an element that stays mounted keeps its srcObject;
\* an entry whose element was unmounted stays in the registry (`if (el)`).
MountRefs(refs, before, now) ==
  [p \in (DOMAIN refs) \cup now |->
     IF p \in now /\ (p \notin before \/ p \notin DOMAIN refs)
     THEN NoStream ELSE refs[p]]

\* updateScreenShareVideo for every entry of screenShares
ScreenShareEffect(refs, shares) ==
  [p \in DOMAIN refs |->
     IF p \in DOMAIN shares /\ shares[p].videoTrack # NoTrack
     THEN shares[p].videoTrack ELSE refs[p]]

\* The commit after a handler: v, a, s are the registries as the handler left
\* them, sharesSet tells whether the handler called setScreenShares.
Commit(v, a, s, sharesSet) ==
  /\ videoRefs' = MountRefs(v, Shown(isJoined, peers), Shown(isJoined', peers'))
  /\ audioRefs' = MountRefs(a, Shown(isJoined, peers), Shown(isJoined', peers'))
  /\ screenShareRefs' =
       LET m == MountRefs(s, Shown(isJoined, screenShares),
                             Shown(isJoined', screenShares'))
       IN IF sharesSet THEN ScreenShareEffect(m, screenShares') ELSE m

NoCommit == Commit(videoRefs, audioRefs, screenShareRefs, FALSE)

\* -------------------------------------------------------------------- Init
Init ==
  /\ roomId = <<>>
  /\ isInitialized = FALSE
  /\ isJoined = FALSE
  /\ loading = FALSE
  /\ error = ""
  /\ vidScaleClient = Null
  /\ peers = EmptyMap
  /\ screenShares = EmptyMap
  /\ isMuted = FALSE
  /\ isCameraOn = TRUE
  /\ isScreenSharing = FALSE
  /\ isRecording = FALSE
  /\ videoRefs = EmptyMap
  /\ audioRefs = EmptyMap
  /\ screenShareRefs = EmptyMap
  /\ pending = EmptyBag
  /\ listeners = {}
  /\ created = 0
  /\ lastEvent = Event("mount", Null, "")
  /\ lastNote = NoNotes
  /\ enteredBy = {}
  /\ missed = {}
  /\ burst = <<>>
  /\ lastShare = NoNotes
  /\ dropped = FALSE
  /\ sessionToken = NoToken
  /\ chatMessages = <<>>
  /\ chatInput = <<>>
  /\ selectedChatReceiver = Everyone
  /\ widgetPopups = <<>>
  /\ authRequests = <<>>
  /\ audioDevices = <<>>
  /\ videoDevices = <<>>
  /\ selectedAudioDeviceId = NoDevice
  /\ selectedVideoDeviceId = NoDevice
  /\ listing = 1
  /\ showSettings = FALSE
  /\ showChat = FALSE
  /\ showWidgets = FALSE

\* ------------------------------------------------------------ room id field
\* <input value={roomId} onChange=... disabled={isInitialized}> on the join screen
SetRoomId(r) ==
  /\ ~isJoined /\ ~isInitialized
  /\ r # roomId
  /\ roomId' = r
  /\ Record(Event("setRoomId", Null, ""))
  /\ UNCHANGED uiVars
  /\ UNCHANGED <<isInitialized, isJoined, loading, error, vidScaleClient>>
  /\ UNCHANGED <<mapVars, flagVars, sdkVars>>
  /\ NoCommit

\* ----------------------------------------------------------- initializeSDK
\* The handler up to its first await (the fetch inside fetchSessionToken).
initializeSDK ==
  IF Trim(roomId) = <<>>
  THEN /\ error' = "Please enter a room ID"
       /\ Record(Event("initializeBlank", Null, ""))
       /\ UNCHANGED uiVars
       /\ UNCHANGED <<loading, pending>>
  ELSE /\ InFlight < MaxPending
       /\ loading' = TRUE
       /\ error' = ""
       /\ pending' = Issue(CallA("fetch", Null, FALSE, [NoArg EXCEPT !.roomId = roomId]))
       /\ Record(Event("initializeSDK", Null, ""))
       /\ UNCHANGED uiVars

\* The "Initialize SDK" button: rendered when !isJoined && !isInitialized,
\* disabled={loading || !roomId.trim()}
ClickInitialize ==
  /\ ~isJoined /\ ~isInitialized
  /\ ~(loading \/ Trim(roomId) = <<>>)
  /\ initializeSDK
  /\ UNCHANGED <<roomId, isInitialized, isJoined, vidScaleClient>>
  /\ UNCHANGED <<mapVars, flagVars, listeners, created>>
  /\ NoCommit

\* initializeSDK with the blank check inside its try block, so that the
\* finally (setLoading(false)) runs on the early return
InvokeInitializeInTry ==
  /\ Trim(roomId) = <<>>
  /\ error' = "Please enter a room ID"
  /\ loading' = FALSE
  /\ Record(Event("initializeBlank", Null, ""))
  /\ UNCHANGED uiVars
  /\ UNCHANGED <<roomId, isInitialized, isJoined, vidScaleClient>>
  /\ UNCHANGED <<mapVars, flagVars, sdkVars>>
  /\ NoCommit

\* initializeSDK called with a blank room id, a state in which its button is
\* disabled; this is what exercises the `!roomId.trim()` branch of the handler
InvokeInitialize ==
  /\ Trim(roomId) = <<>>
  /\ initializeSDK
  /\ UNCHANGED <<roomId, isInitialized, isJoined, vidScaleClient>>
  /\ UNCHANGED <<mapVars, flagVars, listeners, created>>
  /\ NoCommit

\* FetchResolveWith that hands init the sessionToken state its closure holds
\* instead of the token the fetch returned
FetchResolveStale(tok) ==
  /\ \E c \in Calls("fetch") :
       LET a == [NoArg EXCEPT !.token = tok, !.roomId = c.arg.roomId]
           stale == [a EXCEPT !.token = sessionToken]
       IN /\ pending' = Settle(c) (+) SetToBag({CallA("init", Null, FALSE, stale)})
          /\ Record(EventA("fetchResolve", Null, "", NoTrack, FALSE, a))
  /\ sessionToken' = tok
  /\ loading' = FALSE
  /\ UNCHANGED panelVars
  /\ UNCHANGED <<roomId, isInitialized, isJoined, error, vidScaleClient>>
  /\ UNCHANGED <<mapVars, flagVars, listeners, created>>
  /\ NoCommit

\* fetch resolved with an ok response carrying token tok: fetchSessionToken
\* returns it (finally: setLoading(false)), initializeSDK stores it and calls
\* samvyo.JsSdk.init with it and the room id its closure holds
FetchResolveWith(tok) ==
  /\ \E c \in Calls("fetch") :
       LET a == [NoArg EXCEPT !.token = tok, !.roomId = c.arg.roomId]
       IN /\ pending' = Settle(c) (+) SetToBag({CallA("init", Null, FALSE, a)})
          /\ Record(EventA("fetchResolve", Null, "", NoTrack, FALSE, a))
  /\ sessionToken' = tok
  /\ loading' = FALSE
  /\ UNCHANGED panelVars
  /\ UNCHANGED <<roomId, isInitialized, isJoined, error, vidScaleClient>>
  /\ UNCHANGED <<mapVars, flagVars, listeners, created>>
  /\ NoCommit

FetchResolve == \E tok \in Tokens : FetchResolveWith(tok)

\* fetch rejected or !response.ok: fetchSessionToken sets its message and
\* rethrows, the catch of initializeSDK overwrites it
FetchReject ==
  /\ \E c \in Calls("fetch") : pending' = Settle(c)
  /\ error' = "Initialization failed"
  /\ isInitialized' = FALSE
  /\ loading' = FALSE
  /\ Record(Event("fetchReject", Null, ""))
  /\ UNCHANGED uiVars
  /\ UNCHANGED <<roomId, isJoined, vidScaleClient>>
  /\ UNCHANGED <<mapVars, flagVars, listeners, created>>
  /\ NoCommit

\* InitResolve that stores the client without calling setupEventListeners
InitResolveUnheard ==
  /\ created < MaxClients
  /\ \E c \in Calls("init") : pending' = Settle(c)
  /\ created' = created + 1
  /\ vidScaleClient' = created + 1
  /\ listeners' = listeners
  /\ isInitialized' = TRUE
  /\ error' = ""
  /\ loading' = FALSE
  /\ Record(Event("initResolve", Null, ""))
  /\ UNCHANGED uiVars
  /\ UNCHANGED <<roomId, isJoined>>
  /\ UNCHANGED <<mapVars, flagVars>>
  /\ NoCommit

\* samvyo.JsSdk.init resolved with a client
InitResolve ==
  /\ created < MaxClients
  /\ \E c \in Calls("init") : pending' = Settle(c)
  /\ created' = created + 1
  /\ vidScaleClient' = created + 1
  /\ listeners' = listeners \cup {created + 1}
  /\ isInitialized' = TRUE
  /\ error' = ""
  /\ loading' = FALSE
  /\ Record(Event("initResolve", Null, ""))
  /\ UNCHANGED uiVars
  /\ UNCHANGED <<roomId, isJoined>>
  /\ UNCHANGED <<mapVars, flagVars>>
  /\ NoCommit

InitReject ==
  /\ \E c \in Calls("init") : pending' = Settle(c)
  /\ error' = "Initialization failed"
  /\ isInitialized' = FALSE
  /\ loading' = FALSE
  /\ Record(Event("initReject", Null, ""))
  /\ UNCHANGED uiVars
  /\ UNCHANGED <<roomId, isJoined, vidScaleClient>>
  /\ UNCHANGED <<mapVars, flagVars, listeners, created>>
  /\ NoCommit

\* ---------------------------------------------------------------- joinRoom
\* The handler up to `await vidScaleClient.joinRoom(params)`.
joinRoom ==
  IF vidScaleClient = Null \/ ~isInitialized
  THEN /\ error' = "SDK not initialized"
       /\ Record(Event("joinNotInitialized", Null, ""))
       /\ UNCHANGED uiVars
       /\ UNCHANGED <<loading, pending>>
  ELSE /\ InFlight < MaxPending
       /\ loading' = TRUE
       /\ pending' = Issue(Call("joinRoom", vidScaleClient, FALSE))
       /\ Record(Event("joinRoom", Null, ""))
       /\ UNCHANGED uiVars
       /\ UNCHANGED error

\* The "Join Room" button: rendered when !isJoined && isInitialized,
\* disabled={loading}
ClickJoin ==
  /\ ~isJoined /\ isInitialized /\ ~loading
  /\ joinRoom
  /\ UNCHANGED <<roomId, isInitialized, isJoined, vidScaleClient>>
  /\ UNCHANGED <<mapVars, flagVars, listeners, created>>
  /\ NoCommit

\* joinRoom called in a state where its button is not rendered; this is what
\* exercises the `!vidScaleClient || !isInitialized` branch of the handler
InvokeJoin ==
  /\ vidScaleClient = Null \/ ~isInitialized
  /\ joinRoom
  /\ UNCHANGED <<roomId, isInitialized, isJoined, vidScaleClient>>
  /\ UNCHANGED <<mapVars, flagVars, listeners, created>>
  /\ NoCommit

\* the joinRoom promise resolved: the handler ends without touching state
JoinResolve ==
  /\ \E c \in Calls("joinRoom") : pending' = Settle(c)
  /\ Record(Event("joinResolve", Null, ""))
  /\ UNCHANGED uiVars
  /\ UNCHANGED <<sessVars, mapVars, flagVars, listeners, created>>
  /\ NoCommit

\* the joinRoom promise rejected: the catch block
JoinReject ==
  /\ \E c \in Calls("joinRoom") : pending' = Settle(c)
  /\ error' = "Failed to join room"
  /\ loading' = FALSE
  /\ Record(Event("joinReject", Null, ""))
  /\ UNCHANGED uiVars
  /\ UNCHANGED <<roomId, isInitialized, isJoined, vidScaleClient>>
  /\ UNCHANGED <<mapVars, flagVars, listeners, created>>
  /\ NoCommit

\* ------------------------------------------------------ leaveRoom, closeRoom
\* removeAllPeers: setPeers(new Map()), videoRefs and audioRefs cleared
\* (the registries it leaves are handed to Commit by the caller)

\* LeftRoom that also puts the local media flags back to their defaults
LeftRoomResetsFlags ==
  /\ isJoined' = FALSE
  /\ isInitialized' = FALSE
  /\ vidScaleClient' = Null
  /\ peers' = EmptyMap
  /\ screenShares' = EmptyMap
  /\ isRecording' = FALSE
  /\ isMuted' = FALSE
  /\ isCameraOn' = TRUE
  /\ isScreenSharing' = FALSE
  /\ UNCHANGED <<roomId, loading, error>>
  /\ Commit(EmptyMap, EmptyMap, EmptyMap, TRUE)

\* The body that runs once `await vidScaleClient.leaveRoom()` (or closeRoom())
\* has resolved; it is the same in both handlers.
LeftRoom ==
  /\ isJoined' = FALSE
  /\ isInitialized' = FALSE
  /\ vidScaleClient' = Null
  /\ peers' = EmptyMap
  /\ screenShares' = EmptyMap
  /\ isRecording' = FALSE
  /\ UNCHANGED <<roomId, loading, error, isMuted, isCameraOn, isScreenSharing>>
  /\ Commit(EmptyMap, EmptyMap, EmptyMap, TRUE)

\* leaveRoom / closeRoom up to the await; op is "leaveRoom" or "closeRoom".
\* Both buttons are rendered in the isJoined branch of the controls panel.
ClickLeaveOrClose(op) ==
  /\ isJoined
  /\ vidScaleClient # Null
  /\ InFlight < MaxPending
  /\ pending' = Issue(Call(op, vidScaleClient, FALSE))
  /\ Record(Event(op, Null, ""))
  /\ UNCHANGED uiVars
  /\ UNCHANGED <<sessVars, mapVars, flagVars, listeners, created>>
  /\ NoCommit

ClickLeave == ClickLeaveOrClose("leaveRoom")
ClickClose == ClickLeaveOrClose("closeRoom")

\* the same buttons clicked while no client is stored: the body of
\* `if (vidScaleClient) { ... }` is skipped
ClickLeaveOrCloseNoClient(op) ==
  /\ isJoined
  /\ vidScaleClient = Null
  /\ Record(Event("leaveSkipped", Null, op))
  /\ UNCHANGED uiVars
  /\ UNCHANGED <<sessVars, mapVars, flagVars, sdkVars>>
  /\ NoCommit

LeaveResolve ==
  /\ \E c \in Calls("leaveRoom") : pending' = Settle(c)
  /\ Record(Event("leaveResolve", Null, ""))
  /\ UNCHANGED uiVars
  /\ LeftRoom
  /\ UNCHANGED <<listeners, created>>

CloseResolve ==
  /\ \E c \in Calls("closeRoom") : pending' = Settle(c)
  /\ Record(Event("closeResolve", Null, ""))
  /\ UNCHANGED uiVars
  /\ LeftRoom
  /\ UNCHANGED <<listeners, created>>

\* LeaveReject that resets the session as a resolved leave does
LeaveRejectResets ==
  /\ \E c \in Calls("leaveRoom") : pending' = Settle(c)
  /\ Record(Event("leaveReject", Null, ""))
  /\ UNCHANGED uiVars
  /\ LeftRoom
  /\ UNCHANGED <<listeners, created>>

LeaveReject ==
  /\ \E c \in Calls("leaveRoom") : pending' = Settle(c)
  /\ error' = "Failed to leave room"
  /\ Record(Event("leaveReject", Null, ""))
  /\ UNCHANGED uiVars
  /\ UNCHANGED <<roomId, isInitialized, isJoined, loading, vidScaleClient>>
  /\ UNCHANGED <<mapVars, flagVars, listeners, created>>
  /\ NoCommit

CloseReject ==
  /\ \E c \in Calls("closeRoom") : pending' = Settle(c)
  /\ error' = "Failed to close room"
  /\ Record(Event("closeReject", Null, ""))
  /\ UNCHANGED uiVars
  /\ UNCHANGED <<roomId, isInitialized, isJoined, loading, vidScaleClient>>
  /\ UNCHANGED <<mapVars, flagVars, listeners, created>>
  /\ NoCommit

\* ------------------------------------------------------------ media toggles
\* toggleMic / toggleCamera / toggleScreenShare / toggleRecording
Flag(k) ==
  CASE k = "mic" -> isMuted
    [] k = "camera" -> isCameraOn
    [] k = "share" -> isScreenSharing
    [] k = "recording" -> isRecording

ToggleError(k) ==
  CASE k = "mic" -> "Failed to toggle microphone"
    [] k = "camera" -> "Failed to toggle camera"
    [] k = "share" -> "Failed to toggle screen share"
    [] k = "recording" -> "Failed to toggle recording"

\* ClickToggle that flips the flag before the SDK call has resolved
ClickToggleOptimistic(k) ==
  /\ isJoined
  /\ vidScaleClient # Null
  /\ InFlight < MaxPending
  /\ pending' = Issue(Call(k, vidScaleClient, Flag(k)))
  /\ isMuted' = IF k = "mic" THEN ~isMuted ELSE isMuted
  /\ isCameraOn' = IF k = "camera" THEN ~isCameraOn ELSE isCameraOn
  /\ isScreenSharing' = IF k = "share" THEN ~isScreenSharing ELSE isScreenSharing
  /\ isRecording' = IF k = "recording" THEN ~isRecording ELSE isRecording
  /\ Record(Event(k, Null, ""))
  /\ UNCHANGED <<sessVars, mapVars, listeners, created, uiVars>>
  /\ NoCommit

\* the handler up to its await; the flag it read is kept by the closure.
\* The four buttons are rendered in the isJoined branch.
ClickToggle(k) ==
  /\ isJoined
  /\ vidScaleClient # Null
  /\ InFlight < MaxPending
  /\ pending' = Issue(Call(k, vidScaleClient, Flag(k)))
  /\ Record(Event(k, Null, ""))
  /\ UNCHANGED uiVars
  /\ UNCHANGED <<sessVars, mapVars, flagVars, listeners, created>>
  /\ NoCommit

\* a toggle handler without the `if (!vidScaleClient) return` line
ClickToggleUnguarded(k) ==
  /\ isJoined
  /\ vidScaleClient = Null
  /\ InFlight < MaxPending
  /\ pending' = Issue(Call(k, vidScaleClient, Flag(k)))
  /\ Record(Event(k, Null, ""))
  /\ UNCHANGED uiVars
  /\ UNCHANGED <<sessVars, mapVars, flagVars, listeners, created>>
  /\ NoCommit

\* the same buttons clicked while no client is stored:
\* `if (!vidScaleClient) return`
ClickToggleNoClient(k) ==
  /\ isJoined
  /\ vidScaleClient = Null
  /\ Record(Event("toggleSkipped", Null, k))
  /\ UNCHANGED uiVars
  /\ UNCHANGED <<sessVars, mapVars, flagVars, sdkVars>>
  /\ NoCommit

\* ToggleResolve with a functional update (prev => !prev) of the flag
ToggleResolveFresh(k) ==
  /\ \E c \in Calls(k) :
       /\ pending' = Settle(c)
       /\ Record(EventA("toggleResolve", Null, k, NoTrack, c.flag, NoArg))
  /\ isMuted' = IF k = "mic" THEN ~isMuted ELSE isMuted
  /\ isCameraOn' = IF k = "camera" THEN ~isCameraOn ELSE isCameraOn
  /\ isScreenSharing' = IF k = "share" THEN ~isScreenSharing ELSE isScreenSharing
  /\ isRecording' = IF k = "recording" THEN ~isRecording ELSE isRecording
  /\ UNCHANGED <<sessVars, mapVars, listeners, created, uiVars>>
  /\ NoCommit

\* the SDK call resolved: set<Flag>(!flag) with the flag the closure read
ToggleResolve(k) ==
  /\ \E c \in Calls(k) :
       /\ pending' = Settle(c)
       /\ isMuted' = IF k = "mic" THEN ~c.flag ELSE isMuted
       /\ isCameraOn' = IF k = "camera" THEN ~c.flag ELSE isCameraOn
       /\ isScreenSharing' = IF k = "share" THEN ~c.flag ELSE isScreenSharing
       /\ isRecording' = IF k = "recording" THEN ~c.flag ELSE isRecording
       /\ Record(EventA("toggleResolve", Null, k, NoTrack, c.flag, NoArg))
  /\ UNCHANGED uiVars
  /\ UNCHANGED <<sessVars, mapVars, listeners, created>>
  /\ NoCommit

ToggleReject(k) ==
  /\ \E c \in Calls(k) : pending' = Settle(c)
  /\ error' = ToggleError(k)
  /\ Record(Event("toggleReject", Null, k))
  /\ UNCHANGED uiVars
  /\ UNCHANGED <<roomId, isInitialized, isJoined, loading, vidScaleClient>>
  /\ UNCHANGED <<mapVars, flagVars, listeners, created>>
  /\ NoCommit

\* ------------------------------------------------------- peer management
NewPeerEntry(peerName, type) ==
  [peerName |-> peerName, type |-> type, muted |-> FALSE, cameraOn |-> TRUE,
   muteStatusMessage |-> "", camStatusMessage |-> ""]

\* addPeer without the has() check: a repeated newPeer replaces the entry
addPeerReplace(m, peerId, peerName, type) ==
  MapSet(m, peerId, NewPeerEntry(peerName, type))

\* addPeer that keeps the name and type of an existing entry but resets its
\* status to that of a new participant
addPeerResetStatus(m, peerId, peerName, type) ==
  IF peerId \notin DOMAIN m THEN MapSet(m, peerId, NewPeerEntry(peerName, type))
  ELSE MapSet(m, peerId, NewPeerEntry(m[peerId].peerName, m[peerId].type))

addPeer(m, peerId, peerName, type) ==
  IF peerId \notin DOMAIN m THEN MapSet(m, peerId, NewPeerEntry(peerName, type))
  ELSE m

\* removePeer that returns the copy without deleting the key
removePeerKeep(m, peerId) == m

\* removePeer: the map part; the caller deletes the refs with MapDelete
removePeer(m, peerId) == MapDelete(m, peerId)

\* updatePeerMuteStatus that marks every participant instead of one
updatePeerMuteStatusAll(m, peerId, muted) ==
  [q \in DOMAIN m |->
     [m[q] EXCEPT !.muted = muted,
                  !.muteStatusMessage = IF muted THEN "Muted" ELSE "Unmuted"]]

updatePeerMuteStatus(m, peerId, muted) ==
  IF peerId \in DOMAIN m
  THEN [m EXCEPT ![peerId].muted = muted,
                 ![peerId].muteStatusMessage = IF muted THEN "Muted" ELSE "Unmuted"]
  ELSE m

\* updatePeerCameraStatus that creates an entry for an id the map does not hold
updatePeerCameraStatusCreate(m, peerId, isOn) ==
  MapSet(m, peerId,
         [(IF peerId \in DOMAIN m THEN m[peerId] ELSE NewPeerEntry("Alice", "remote"))
            EXCEPT !.cameraOn = isOn,
                   !.camStatusMessage =
                      IF isOn THEN "Camera turned on" ELSE "Camera turned off"])

updatePeerCameraStatus(m, peerId, isOn) ==
  IF peerId \in DOMAIN m
  THEN [m EXCEPT ![peerId].cameraOn = isOn,
                 ![peerId].camStatusMessage =
                    IF isOn THEN "Camera turned on" ELSE "Camera turned off"]
  ELSE m

\* ------------------------------------------------- screen share management
addScreenShare(m, peerId, videoTrack, type) ==
  IF peerId \notin DOMAIN m
  THEN MapSet(m, peerId, [videoTrack |-> videoTrack, type |-> type])
  ELSE m

\* removeScreenShare that returns the copy without deleting the key
removeScreenShareKeep(m, peerId) == m

removeScreenShare(m, peerId) == MapDelete(m, peerId)

\* -------------------------------------------------- media rendering bridge
\* updatePeerVideo that registers a surface for an id that has none
updatePeerVideoCreate(refs, peerId, videoTrack) ==
  IF videoTrack # NoTrack THEN MapSet(refs, peerId, videoTrack) ELSE refs

\* updatePeerVideo: attach when the surface is registered and a track is given
updatePeerVideo(refs, peerId, videoTrack) ==
  IF peerId \in DOMAIN refs /\ videoTrack # NoTrack
  THEN [refs EXCEPT ![peerId] = videoTrack] ELSE refs

\* removePeerVideo that leaves srcObject as it is
removePeerVideoKeep(refs, peerId) == refs

\* removePeerVideo / removePeerAudio: srcObject = null when registered
removePeerVideo(refs, peerId) ==
  IF peerId \in DOMAIN refs THEN [refs EXCEPT ![peerId] = NoStream] ELSE refs

removePeerAudio(refs, peerId) ==
  IF peerId \in DOMAIN refs THEN [refs EXCEPT ![peerId] = NoStream] ELSE refs

\* updatePeerAudio without the type === 'remote' check
updatePeerAudioAnyType(refs, peerId, audioTrack, type) ==
  IF peerId \in DOMAIN refs /\ audioTrack # NoTrack
  THEN [refs EXCEPT ![peerId] = audioTrack] ELSE refs

\* updatePeerAudio: only remote audio tracks are attached
updatePeerAudio(refs, peerId, audioTrack, type) ==
  IF type = "remote" /\ peerId \in DOMAIN refs /\ audioTrack # NoTrack
  THEN [refs EXCEPT ![peerId] = audioTrack] ELSE refs

\* ------------------------------------------------------------ notifications
\* A notification is delivered to the handlers registered on some client.
Emitting == listeners # {}

OnJoinSuccess ==
  /\ Emitting
  /\ isJoined' = TRUE
  /\ error' = ""
  /\ loading' = FALSE
  /\ Record(Event("joinSuccess", Null, ""))
  /\ UNCHANGED uiVars
  /\ UNCHANGED <<roomId, isInitialized, vidScaleClient>>
  /\ UNCHANGED <<mapVars, flagVars, sdkVars>>
  /\ NoCommit

OnJoinError ==
  /\ Emitting
  /\ error' = "Join error"
  /\ isJoined' = FALSE
  /\ loading' = FALSE
  /\ Record(Event("joinError", Null, ""))
  /\ UNCHANGED uiVars
  /\ UNCHANGED <<roomId, isInitialized, vidScaleClient>>
  /\ UNCHANGED <<mapVars, flagVars, sdkVars>>
  /\ NoCommit

OnNewPeer(peerId, peerName, type) ==
  /\ Emitting
  /\ peers' = addPeer(peers, peerId, peerName, type)
  /\ isJoined' = IF type = "local" THEN TRUE ELSE isJoined
  /\ loading' = IF type = "local" THEN FALSE ELSE loading
  /\ Record(Event("newPeer", peerId, type))
  /\ UNCHANGED uiVars
  /\ UNCHANGED <<roomId, isInitialized, error, vidScaleClient>>
  /\ UNCHANGED <<screenShares, flagVars, sdkVars>>
  /\ NoCommit

\* peerLeft that also drops the participant's screen share
OnPeerLeftWithShare(peerId) ==
  /\ Emitting
  /\ peers' = removePeer(peers, peerId)
  /\ screenShares' = removeScreenShare(screenShares, peerId)
  /\ Record(Event("peerLeft", peerId, ""))
  /\ UNCHANGED uiVars
  /\ UNCHANGED <<sessVars, flagVars, sdkVars>>
  /\ Commit(MapDelete(videoRefs, peerId), MapDelete(audioRefs, peerId),
            MapDelete(screenShareRefs, peerId), TRUE)

OnPeerLeft(peerId) ==
  /\ Emitting
  /\ peers' = removePeer(peers, peerId)
  /\ Record(Event("peerLeft", peerId, ""))
  /\ UNCHANGED uiVars
  /\ UNCHANGED <<sessVars, screenShares, flagVars, sdkVars>>
  /\ Commit(MapDelete(videoRefs, peerId), MapDelete(audioRefs, peerId),
            screenShareRefs, FALSE)

OnMicStart(peerId, audioTrack, type) ==
  /\ Emitting
  /\ Record(EventT("micStart", peerId, type, audioTrack))
  /\ UNCHANGED uiVars
  /\ UNCHANGED <<sessVars, mapVars, flagVars, sdkVars>>
  /\ Commit(videoRefs, updatePeerAudio(audioRefs, peerId, audioTrack, type),
            screenShareRefs, FALSE)

OnMicEnd(peerId) ==
  /\ Emitting
  /\ Record(Event("micEnd", peerId, ""))
  /\ UNCHANGED uiVars
  /\ UNCHANGED <<sessVars, mapVars, flagVars, sdkVars>>
  /\ Commit(videoRefs, removePeerAudio(audioRefs, peerId), screenShareRefs, FALSE)

OnPeerMuted(peerId) ==
  /\ Emitting
  /\ peers' = updatePeerMuteStatus(peers, peerId, TRUE)
  /\ Record(Event("peerMuted", peerId, ""))
  /\ UNCHANGED uiVars
  /\ UNCHANGED <<sessVars, screenShares, flagVars, sdkVars>>
  /\ NoCommit

OnPeerUnMuted(peerId) ==
  /\ Emitting
  /\ peers' = updatePeerMuteStatus(peers, peerId, FALSE)
  /\ Record(Event("peerUnMuted", peerId, ""))
  /\ UNCHANGED uiVars
  /\ UNCHANGED <<sessVars, screenShares, flagVars, sdkVars>>
  /\ NoCommit

OnVideoStart(peerId, videoTrack, type) ==
  /\ Emitting
  /\ peers' = updatePeerCameraStatus(peers, peerId, TRUE)
  /\ Record(EventT("videoStart", peerId, type, videoTrack))
  /\ UNCHANGED uiVars
  /\ UNCHANGED <<sessVars, screenShares, flagVars, sdkVars>>
  /\ Commit(updatePeerVideo(videoRefs, peerId, videoTrack), audioRefs,
            screenShareRefs, FALSE)

OnVideoEnd(peerId) ==
  /\ Emitting
  /\ peers' = updatePeerCameraStatus(peers, peerId, FALSE)
  /\ Record(Event("videoEnd", peerId, ""))
  /\ UNCHANGED uiVars
  /\ UNCHANGED <<sessVars, screenShares, flagVars, sdkVars>>
  /\ Commit(removePeerVideo(videoRefs, peerId), audioRefs, screenShareRefs, FALSE)

OnSsVideoStart(peerId, videoTrack, type) ==
  /\ Emitting
  /\ screenShares' = addScreenShare(screenShares, peerId, videoTrack, type)
  /\ Record(EventT("ssVideoStart", peerId, type, videoTrack))
  /\ UNCHANGED uiVars
  /\ UNCHANGED <<sessVars, peers, flagVars, sdkVars>>
  /\ Commit(videoRefs, audioRefs, screenShareRefs, TRUE)

\* ssVideoStop in a program that keeps screen-share surfaces in videoRefs
OnSsVideoStopShared(peerId) ==
  /\ Emitting
  /\ screenShares' = removeScreenShare(screenShares, peerId)
  /\ Record(Event("ssVideoStop", peerId, ""))
  /\ UNCHANGED uiVars
  /\ UNCHANGED <<sessVars, peers, flagVars, sdkVars>>
  /\ Commit(MapDelete(videoRefs, peerId), audioRefs,
            MapDelete(screenShareRefs, peerId), TRUE)

OnSsVideoStop(peerId) ==
  /\ Emitting
  /\ screenShares' = removeScreenShare(screenShares, peerId)
  /\ Record(Event("ssVideoStop", peerId, ""))
  /\ UNCHANGED uiVars
  /\ UNCHANGED <<sessVars, peers, flagVars, sdkVars>>
  /\ Commit(videoRefs, audioRefs, MapDelete(screenShareRefs, peerId), TRUE)

\* --------------------------------------------------------- playback failures
\* The promise returned by play() on a surface that holds a stream rejects
\* (autoplay policy): the .catch callback logs a warning and sets no state,
\* so no render follows. kind is "video", "audio" or "share".
\* the surfaces of a registry that hold a stream
Playing(refs) == {p \in DOMAIN refs : refs[p] # NoStream}

SurfaceKinds == {"video", "audio", "share"}

Registry(kind) ==
  CASE kind = "video" -> videoRefs
    [] kind = "audio" -> audioRefs
    [] kind = "share" -> screenShareRefs

\* a .catch callback that surfaces the failure with setError
PlayRejectSurfaces(kind, peerId) ==
  /\ peerId \in Playing(Registry(kind))
  /\ error' = "Error playing"
  /\ Record(Event("playReject", peerId, kind))
  /\ UNCHANGED uiVars
  /\ UNCHANGED <<roomId, isInitialized, isJoined, loading, vidScaleClient>>
  /\ UNCHANGED <<mapVars, flagVars, sdkVars>>
  /\ NoCommit

PlayReject(kind, peerId) ==
  /\ peerId \in Playing(Registry(kind))
  /\ Record(Event("playReject", peerId, kind))
  /\ UNCHANGED uiVars
  /\ UNCHANGED <<sessVars, mapVars, flagVars, sdkVars, refVars>>

\* videoStart whose attach throws inside the try block of updatePeerVideo
\* (the surface is registered and a track is given): the catch logs it, the
\* surface has the new stream or not depending on the statement that threw,
\* and the handler goes on to updatePeerCameraStatus(peerId, true).
OnVideoStartThrows(peerId, videoTrack, type) ==
  /\ Emitting
  /\ peerId \in DOMAIN videoRefs
  /\ videoTrack # NoTrack
  /\ peers' = updatePeerCameraStatus(peers, peerId, TRUE)
  /\ Record(EventT("videoStartThrew", peerId, type, videoTrack))
  /\ UNCHANGED uiVars
  /\ UNCHANGED <<sessVars, screenShares, flagVars, sdkVars>>
  /\ \E attached \in BOOLEAN :
       Commit(IF attached THEN updatePeerVideo(videoRefs, peerId, videoTrack)
                          ELSE videoRefs,
              audioRefs, screenShareRefs, FALSE)

\* micStart of a remote track whose attach throws in updatePeerAudio
OnMicStartThrows(peerId, audioTrack) ==
  /\ Emitting
  /\ peerId \in DOMAIN audioRefs
  /\ audioTrack # NoTrack
  /\ Record(EventT("micStartThrew", peerId, "remote", audioTrack))
  /\ UNCHANGED uiVars
  /\ UNCHANGED <<sessVars, mapVars, flagVars, sdkVars>>
  /\ \E attached \in BOOLEAN :
       Commit(videoRefs,
              IF attached THEN updatePeerAudio(audioRefs, peerId, audioTrack, "remote")
                          ELSE audioRefs,
              screenShareRefs, FALSE)

\* The commit after setScreenShares when updateScreenShareVideo throws for
\* the surfaces in failed before srcObject is assigned: the effect's forEach
\* goes on with the other entries.
CommitThrows(v, a, s, failed) ==
  /\ videoRefs' = MountRefs(v, Shown(isJoined, peers), Shown(isJoined', peers'))
  /\ audioRefs' = MountRefs(a, Shown(isJoined, peers), Shown(isJoined', peers'))
  /\ screenShareRefs' =
       LET m == MountRefs(s, Shown(isJoined, screenShares),
                             Shown(isJoined', screenShares'))
       IN [p \in DOMAIN m |->
             IF p \in failed THEN m[p] ELSE ScreenShareEffect(m, screenShares')[p]]

\* ssVideoStart after which the effect's attach throws for that participant
OnSsVideoStartThrows(peerId, videoTrack, type) ==
  /\ Emitting
  /\ screenShares' = addScreenShare(screenShares, peerId, videoTrack, type)
  /\ screenShares'[peerId].videoTrack # NoTrack
  /\ Record(EventT("ssVideoStartThrew", peerId, type, videoTrack))
  /\ UNCHANGED uiVars
  /\ UNCHANGED <<sessVars, peers, flagVars, sdkVars>>
  /\ CommitThrows(videoRefs, audioRefs, screenShareRefs, {peerId})
  /\ peerId \in DOMAIN screenShareRefs'

\* an 'error' handler that also ends the session, as roomClosed does
OnErrorEndsSession ==
  /\ Emitting
  /\ peers' = EmptyMap
  /\ isJoined' = FALSE
  /\ isInitialized' = FALSE
  /\ vidScaleClient' = Null
  /\ error' = "Error"
  /\ Record(Event("error", Null, ""))
  /\ UNCHANGED uiVars
  /\ UNCHANGED <<roomId, loading, screenShares, flagVars, sdkVars>>
  /\ Commit(EmptyMap, EmptyMap, screenShareRefs, FALSE)

\* 'error' and 'notification' only surface a message
OnError ==
  /\ Emitting
  /\ error' = "Error"
  /\ Record(Event("error", Null, ""))
  /\ UNCHANGED uiVars
  /\ UNCHANGED <<roomId, isInitialized, isJoined, loading, vidScaleClient>>
  /\ UNCHANGED <<mapVars, flagVars, sdkVars>>
  /\ NoCommit

OnNotification ==
  /\ Emitting
  /\ error' = "Notification"
  /\ Record(Event("notification", Null, ""))
  /\ UNCHANGED uiVars
  /\ UNCHANGED <<roomId, isInitialized, isJoined, loading, vidScaleClient>>
  /\ UNCHANGED <<mapVars, flagVars, sdkVars>>
  /\ NoCommit

\* roomClosed: removeAllPeers and the session flags; screenShares,
\* screenShareRefs and isRecording are not touched by this handler
OnRoomClosed ==
  /\ Emitting
  /\ peers' = EmptyMap
  /\ isJoined' = FALSE
  /\ isInitialized' = FALSE
  /\ vidScaleClient' = Null
  /\ error' = "Room closed by moderator!"
  /\ Record(Event("roomClosed", Null, ""))
  /\ UNCHANGED uiVars
  /\ UNCHANGED <<roomId, loading, screenShares, flagVars, sdkVars>>
  /\ Commit(EmptyMap, EmptyMap, screenShareRefs, FALSE)

\* the close button of the error toast: setError('')
DismissError ==
  /\ error # ""
  /\ error' = ""
  /\ Record(Event("dismissError", Null, ""))
  /\ UNCHANGED uiVars
  /\ UNCHANGED <<roomId, isInitialized, isJoined, loading, vidScaleClient>>
  /\ UNCHANGED <<mapVars, flagVars, sdkVars>>
  /\ NoCommit

\* customMessageError only surfaces a message
OnCustomMessageError ==
  /\ Emitting
  /\ error' = "Message error"
  /\ Record(Event("customMessageError", Null, ""))
  /\ UNCHANGED <<roomId, isInitialized, isJoined, loading, vidScaleClient>>
  /\ UNCHANGED <<mapVars, flagVars, sdkVars, uiVars>>
  /\ NoCommit

\* A client whose samvyo.JsSdk.init call is still pending emits a
\* notification: setupEventListeners has not run for it, nothing handles it.
EmitEarly ==
  /\ Calls("init") # {}
  /\ Record(Event("emitEarly", Null, ""))
  /\ UNCHANGED <<sessVars, mapVars, flagVars, sdkVars, uiVars>>
  /\ NoCommit

\* --------------------------------------------------------------------- chat
Texts == RoomIds

ChatEntry(from, data, private) ==
  [from |-> from, data |-> data, type |-> "chat",
   messageType |-> IF private THEN "private" ELSE "public"]

\* addChatMessage that puts the entry in front of the log
addChatMessageFront(log, message) == <<message>> \o log

\* addChatMessage: setChatMessages(prev => [...prev, message])
addChatMessage(log, message) == Append(log, message)

\* The panel buttons. panel is "settings", "chat" or "widgets"; the chat and
\* widgets buttons are in the isJoined branch of the controls, the settings
\* button is in both branches; each panel has a close button.
Panels == {"settings", "chat", "widgets"}

Visible(panel) ==
  CASE panel = "settings" -> showSettings
    [] panel = "chat" -> showChat
    [] panel = "widgets" -> showWidgets

SetShow(panel, v) ==
  /\ showSettings' = IF panel = "settings" THEN v ELSE showSettings
  /\ showChat' = IF panel = "chat" THEN v ELSE showChat
  /\ showWidgets' = IF panel = "widgets" THEN v ELSE showWidgets
  /\ Record(Event("setShow", Null, panel))
  /\ UNCHANGED <<sessVars, mapVars, flagVars, sdkVars, sessionToken>>
  /\ UNCHANGED <<chatVars, widgetPopups, authRequests, deviceVars>>
  /\ NoCommit

TogglePanel(panel) ==
  /\ isJoined \/ panel = "settings"
  /\ SetShow(panel, ~Visible(panel))

ClosePanel(panel) ==
  /\ Visible(panel)
  /\ SetShow(panel, FALSE)

\* <textarea value={chatInput} onChange=...> of the chat panel
SetChatInput(t) ==
  /\ showChat
  /\ t # chatInput
  /\ chatInput' = t
  /\ Record(Event("setChatInput", Null, ""))
  /\ UNCHANGED <<sessVars, mapVars, flagVars, sdkVars, sessionToken>>
  /\ UNCHANGED <<chatMessages, selectedChatReceiver>>
  /\ UNCHANGED <<widgetPopups, authRequests, deviceVars, showVars>>
  /\ NoCommit

\* the receiver <select>: 'everyone' or a participant that is not local
ChatReceivers == {Everyone} \cup {p \in DOMAIN peers : peers[p].type # "local"}

SetChatReceiver(r) ==
  /\ showChat
  /\ r \in ChatReceivers
  /\ r # selectedChatReceiver
  /\ selectedChatReceiver' = r
  /\ Record(Event("setChatReceiver", r, ""))
  /\ UNCHANGED <<sessVars, mapVars, flagVars, sdkVars, sessionToken>>
  /\ UNCHANGED <<chatMessages, chatInput>>
  /\ UNCHANGED <<widgetPopups, authRequests, deviceVars, showVars>>
  /\ NoCommit

\* sendChatMessage up to `await vidScaleClient.sendCustomMessage(...)`; the
\* Send button is disabled for blank input, the Enter key is not.
sendChatMessage ==
  IF Trim(chatInput) = <<>> \/ vidScaleClient = Null
  THEN /\ Record(Event("sendChatSkipped", Null, ""))
       /\ UNCHANGED <<chatMessages, pending>>
  ELSE /\ InFlight < MaxPending
       /\ Len(chatMessages) < MaxChat
       /\ chatMessages' =
            addChatMessage(chatMessages,
                           ChatEntry(Me, chatInput, selectedChatReceiver # Everyone))
       /\ pending' = Issue(Call("sendChat", vidScaleClient, FALSE))
       /\ Record(Event("sendChatMessage", selectedChatReceiver, ""))

ClickSendChat ==
  /\ showChat
  /\ sendChatMessage
  /\ UNCHANGED <<sessVars, mapVars, flagVars, listeners, created, sessionToken>>
  /\ UNCHANGED <<chatInput, selectedChatReceiver>>
  /\ UNCHANGED <<widgetPopups, authRequests, deviceVars, showVars>>
  /\ NoCommit

SendChatResolve ==
  /\ \E c \in Calls("sendChat") : pending' = Settle(c)
  /\ chatInput' = <<>>
  /\ Record(Event("sendChatResolve", Null, ""))
  /\ UNCHANGED <<sessVars, mapVars, flagVars, listeners, created, sessionToken>>
  /\ UNCHANGED <<chatMessages, selectedChatReceiver>>
  /\ UNCHANGED <<widgetPopups, authRequests, deviceVars, showVars>>
  /\ NoCommit

\* SendChatReject that takes the optimistic entry back out of the log
SendChatRejectRollsBack ==
  /\ \E c \in Calls("sendChat") : pending' = Settle(c)
  /\ error' = "Failed to send message"
  /\ chatMessages' = SubSeq(chatMessages, 1, Len(chatMessages) - 1)
  /\ Record(Event("sendChatReject", Null, ""))
  /\ UNCHANGED <<roomId, isInitialized, isJoined, loading, vidScaleClient>>
  /\ UNCHANGED <<mapVars, flagVars, listeners, created, sessionToken>>
  /\ UNCHANGED <<chatInput, selectedChatReceiver>>
  /\ UNCHANGED <<widgetPopups, authRequests, deviceVars, showVars>>
  /\ NoCommit

SendChatReject ==
  /\ \E c \in Calls("sendChat") : pending' = Settle(c)
  /\ error' = "Failed to send message"
  /\ Record(Event("sendChatReject", Null, ""))
  /\ UNCHANGED <<roomId, isInitialized, isJoined, loading, vidScaleClient>>
  /\ UNCHANGED <<mapVars, flagVars, listeners, created, uiVars>>
  /\ NoCommit

\* ------------------------------------------------------------------ widgets
Stamps == 1..MaxChat          \* values of Date.now()

Popup(id, from) == [id |-> id, from |-> from]

addWidgetPopup(popups, widget) == Append(popups, widget)

removeWidgetPopup(popups, widgetId) ==
  SelectSeq(popups, LAMBDA w : w.id # widgetId)

\* the close button of a rendered popup
ClickRemovePopup(i) ==
  /\ i \in DOMAIN widgetPopups
  /\ widgetPopups' = removeWidgetPopup(widgetPopups, widgetPopups[i].id)
  /\ Record(Event("removeWidgetPopup", Null, ""))
  /\ UNCHANGED <<sessVars, mapVars, flagVars, sdkVars, sessionToken>>
  /\ UNCHANGED <<chatVars, authRequests, deviceVars, showVars>>
  /\ NoCommit

\* ClickSendWidget that drops the receiver from the participant map
ClickSendWidgetDropsPeers ==
  /\ showWidgets
  /\ vidScaleClient # Null
  /\ InFlight < MaxPending
  /\ pending' = Issue(Call("sendWidget", vidScaleClient, FALSE))
  /\ peers' = EmptyMap
  /\ Record(Event("sendWidget", Null, ""))
  /\ UNCHANGED <<sessVars, screenShares, flagVars, listeners, created, uiVars>>
  /\ Commit(EmptyMap, EmptyMap, screenShareRefs, FALSE)

\* sendWidget up to its await; the Send buttons are in the widgets panel
ClickSendWidget ==
  /\ showWidgets
  /\ IF vidScaleClient = Null
     THEN /\ Record(Event("sendWidgetSkipped", Null, ""))
          /\ UNCHANGED pending
     ELSE /\ InFlight < MaxPending
          /\ pending' = Issue(Call("sendWidget", vidScaleClient, FALSE))
          /\ Record(Event("sendWidget", Null, ""))
  /\ UNCHANGED <<sessVars, mapVars, flagVars, listeners, created, uiVars>>
  /\ NoCommit

SendWidgetResolve ==
  /\ \E c \in Calls("sendWidget") : pending' = Settle(c)
  /\ Record(Event("sendWidgetResolve", Null, ""))
  /\ UNCHANGED <<sessVars, mapVars, flagVars, listeners, created, uiVars>>
  /\ NoCommit

SendWidgetReject ==
  /\ \E c \in Calls("sendWidget") : pending' = Settle(c)
  /\ error' = "Failed to send widget"
  /\ Record(Event("sendWidgetReject", Null, ""))
  /\ UNCHANGED <<roomId, isInitialized, isJoined, loading, vidScaleClient>>
  /\ UNCHANGED <<mapVars, flagVars, listeners, created, uiVars>>
  /\ NoCommit

\* a customMessage handler without the isLocalMessage check
OnCustomMessageEcho(from, localId, type, data, private, id) ==
  /\ Emitting
  /\ CASE type = "widget" ->
            /\ Len(widgetPopups) < MaxChat
            /\ widgetPopups' = addWidgetPopup(widgetPopups, Popup(id, from))
            /\ UNCHANGED chatMessages
       [] type = "chat" ->
            /\ Len(chatMessages) < MaxChat
            /\ chatMessages' =
                 addChatMessage(chatMessages, ChatEntry(from, data, private))
            /\ UNCHANGED widgetPopups
       [] OTHER -> UNCHANGED <<chatMessages, widgetPopups>>
  /\ Record(EventA("customMessage", from, type, NoTrack, from = localId, NoArg))
  /\ UNCHANGED <<sessVars, mapVars, flagVars, sdkVars, sessionToken>>
  /\ UNCHANGED <<chatInput, selectedChatReceiver, authRequests, deviceVars, showVars>>
  /\ NoCommit

\* customMessage: localId is client.data.inputParams.peerId, id is Date.now()
OnCustomMessage(from, localId, type, data, private, id) ==
  /\ Emitting
  /\ LET isLocalMessage == from = localId
     IN CASE type = "widget" /\ ~isLocalMessage ->
               /\ Len(widgetPopups) < MaxChat
               /\ widgetPopups' = addWidgetPopup(widgetPopups, Popup(id, from))
               /\ UNCHANGED chatMessages
          [] type = "chat" /\ ~isLocalMessage ->
               /\ Len(chatMessages) < MaxChat
               /\ chatMessages' =
                    addChatMessage(chatMessages, ChatEntry(from, data, private))
               /\ UNCHANGED widgetPopups
          [] OTHER -> UNCHANGED <<chatMessages, widgetPopups>>
  /\ Record(EventA("customMessage", from, type, NoTrack, from = localId, NoArg))
  /\ UNCHANGED <<sessVars, mapVars, flagVars, sdkVars, sessionToken>>
  /\ UNCHANGED <<chatInput, selectedChatReceiver, authRequests, deviceVars, showVars>>
  /\ NoCommit

\* ------------------------------------------------ authentication requests
Request(requesterPeerId, type) == [requesterPeerId |-> requesterPeerId, type |-> type]

addAuthRequest(list, request) == Append(list, request)

\* the filter that drops only the first request of the requester
dropFirstRequest(list, requesterPeerId) ==
  IF \E i \in DOMAIN list : list[i].requesterPeerId = requesterPeerId
  THEN LET i == CHOOSE j \in DOMAIN list :
                  /\ list[j].requesterPeerId = requesterPeerId
                  /\ \A h \in 1..(j - 1) : list[h].requesterPeerId # requesterPeerId
       IN SubSeq(list, 1, i - 1) \o SubSeq(list, i + 1, Len(list))
  ELSE list

\* prev.filter(req => req.requesterPeerId !== requesterPeerId)
dropRequests(list, requesterPeerId) ==
  SelectSeq(list, LAMBDA req : req.requesterPeerId # requesterPeerId)

\* moderatorAuthentication (type 'moderator') / authenticationRequested ('request')
OnAuthRequest(requesterPeerId, type) ==
  /\ Emitting
  /\ Len(authRequests) < MaxRequests
  /\ authRequests' = addAuthRequest(authRequests, Request(requesterPeerId, type))
  /\ Record(Event("authRequest", requesterPeerId, type))
  /\ UNCHANGED <<sessVars, mapVars, flagVars, sdkVars, sessionToken>>
  /\ UNCHANGED <<chatVars, widgetPopups, deviceVars, showVars>>
  /\ NoCommit

\* allowRoomJoin / denyRoomJoin up to the await; op is "allowRoomJoin" or
\* "denyRoomJoin". The buttons are rendered for requests of type 'moderator'.
ClickAuth(op, i) ==
  /\ i \in DOMAIN authRequests
  /\ authRequests[i].type = "moderator"
  /\ LET r == authRequests[i].requesterPeerId
     IN IF vidScaleClient = Null
        THEN /\ Record(Event("authSkipped", r, op))
             /\ UNCHANGED pending
        ELSE /\ InFlight < MaxPending
             /\ pending' =
                  Issue(CallA(op, vidScaleClient, FALSE, [NoArg EXCEPT !.peerId = r]))
             /\ Record(Event(op, r, ""))
  /\ UNCHANGED <<sessVars, mapVars, flagVars, listeners, created, uiVars>>
  /\ NoCommit

AuthResolve(op) ==
  /\ \E c \in Calls(op) :
       /\ pending' = Settle(c)
       /\ authRequests' = dropRequests(authRequests, c.arg.peerId)
       /\ Record(Event("authResolve", c.arg.peerId, op))
  /\ UNCHANGED <<sessVars, mapVars, flagVars, listeners, created, sessionToken>>
  /\ UNCHANGED <<chatVars, widgetPopups, deviceVars, showVars>>
  /\ NoCommit

AuthReject(op) ==
  /\ \E c \in Calls(op) :
       /\ pending' = Settle(c)
       /\ Record(Event("authReject", c.arg.peerId, op))
  /\ error' = IF op = "allowRoomJoin" THEN "Failed to allow room join"
              ELSE "Failed to deny room join"
  /\ UNCHANGED <<roomId, isInitialized, isJoined, loading, vidScaleClient>>
  /\ UNCHANGED <<mapVars, flagVars, listeners, created, uiVars>>
  /\ NoCommit

AuthOps == {"allowRoomJoin", "denyRoomJoin"}

\* ------------------------------------------------------------------ devices
\* getAllDevices up to `await client.listDevices()`
getAllDevices ==
  /\ listing < MaxPending
  /\ listing' = listing + 1
  /\ UNCHANGED <<audioDevices, videoDevices, selectedAudioDeviceId, selectedVideoDeviceId>>
  /\ UNCHANGED <<sessVars, mapVars, flagVars, sdkVars, sessionToken>>
  /\ UNCHANGED <<chatVars, widgetPopups, authRequests, showVars>>
  /\ NoCommit

\* the Refresh Devices button of the settings panel
ClickRefreshDevices ==
  /\ showSettings
  /\ Record(Event("refreshDevices", Null, ""))
  /\ getAllDevices

OnDeviceListUpdated ==
  /\ Emitting
  /\ Record(Event("deviceListUpdated", Null, ""))
  /\ getAllDevices

\* listDevices resolved with { success, deviceList }
ListDevicesResolve(success, audioDevs, videoDevs) ==
  /\ listing > 0
  /\ listing' = listing - 1
  /\ audioDevices' = IF success THEN audioDevs ELSE audioDevices
  /\ videoDevices' = IF success THEN videoDevs ELSE videoDevices
  /\ selectedAudioDeviceId' =
       IF success /\ Len(audioDevs) > 0 THEN audioDevs[1] ELSE selectedAudioDeviceId
  /\ selectedVideoDeviceId' =
       IF success /\ Len(videoDevs) > 0 THEN videoDevs[1] ELSE selectedVideoDeviceId
  /\ Record(Event("listDevicesResolve", Null, ""))
  /\ UNCHANGED <<sessVars, mapVars, flagVars, sdkVars, sessionToken>>
  /\ UNCHANGED <<chatVars, widgetPopups, authRequests, showVars>>
  /\ NoCommit

ListDevicesReject ==
  /\ listing > 0
  /\ listing' = listing - 1
  /\ error' = "Failed to get devices"
  /\ Record(Event("listDevicesReject", Null, ""))
  /\ UNCHANGED <<roomId, isInitialized, isJoined, loading, vidScaleClient>>
  /\ UNCHANGED <<audioDevices, videoDevices, selectedAudioDeviceId, selectedVideoDeviceId>>
  /\ UNCHANGED <<mapVars, flagVars, sdkVars, sessionToken>>
  /\ UNCHANGED <<chatVars, widgetPopups, authRequests, showVars>>
  /\ NoCommit

\* changeAudioInput / changeVideoInput up to the await; op is
\* "changeAudioInput" or "changeVideoInput", deviceId an option of the <select>
DeviceOps == {"changeAudioInput", "changeVideoInput"}

Options(op) == IF op = "changeAudioInput" THEN audioDevices ELSE videoDevices

Selected(op) ==
  IF op = "changeAudioInput" THEN selectedAudioDeviceId ELSE selectedVideoDeviceId

ChangeInput(op, deviceId) ==
  /\ showSettings
  /\ \E i \in DOMAIN Options(op) : Options(op)[i] = deviceId
  /\ deviceId # Selected(op)
  /\ IF vidScaleClient = Null
     THEN /\ Record(Event("changeInputSkipped", Null, op))
          /\ UNCHANGED pending
     ELSE /\ InFlight < MaxPending
          /\ pending' = Issue(CallA(op, vidScaleClient, FALSE,
                                    [NoArg EXCEPT !.deviceId = deviceId]))
          /\ Record(Event(op, Null, ""))
  /\ UNCHANGED <<sessVars, mapVars, flagVars, listeners, created, uiVars>>
  /\ NoCommit

ChangeInputResolve(op) ==
  /\ \E c \in Calls(op) :
       /\ pending' = Settle(c)
       /\ selectedAudioDeviceId' =
            IF op = "changeAudioInput" THEN c.arg.deviceId ELSE selectedAudioDeviceId
       /\ selectedVideoDeviceId' =
            IF op = "changeVideoInput" THEN c.arg.deviceId ELSE selectedVideoDeviceId
  /\ Record(Event("changeInputResolve", Null, op))
  /\ UNCHANGED <<sessVars, mapVars, flagVars, listeners, created, sessionToken>>
  /\ UNCHANGED <<audioDevices, videoDevices, listing>>
  /\ UNCHANGED <<chatVars, widgetPopups, authRequests, showVars>>
  /\ NoCommit

ChangeInputReject(op) ==
  /\ \E c \in Calls(op) : pending' = Settle(c)
  /\ error' = IF op = "changeAudioInput" THEN "Failed to change audio input"
              ELSE "Failed to change video input"
  /\ Record(Event("changeInputReject", Null, op))
  /\ UNCHANGED <<roomId, isInitialized, isJoined, loading, vidScaleClient>>
  /\ UNCHANGED <<mapVars, flagVars, listeners, created, uiVars>>
  /\ NoCommit

TrackArgs == Tracks \cup {NoTrack}

Notify ==
  \/ OnJoinSuccess
  \/ OnJoinError
  \/ \E p \in PeerIds, n \in PeerNames, t \in Types : OnNewPeer(p, n, t)
  \/ \E p \in PeerIds : OnPeerLeft(p)
  \/ \E p \in PeerIds, tr \in TrackArgs, t \in Types : OnMicStart(p, tr, t)
  \/ \E p \in PeerIds : OnMicEnd(p)
  \/ \E p \in PeerIds : OnPeerMuted(p)
  \/ \E p \in PeerIds : OnPeerUnMuted(p)
  \/ \E p \in PeerIds, tr \in TrackArgs, t \in Types : OnVideoStart(p, tr, t)
  \/ \E p \in PeerIds : OnVideoEnd(p)
  \/ \E p \in PeerIds, tr \in TrackArgs, t \in Types : OnSsVideoStart(p, tr, t)
  \/ \E p \in PeerIds : OnSsVideoStop(p)
  \/ \E p \in PeerIds, t \in Types : OnVideoStartThrows(p, "track", t)
  \/ \E p \in PeerIds : OnMicStartThrows(p, "track")
  \/ \E p \in PeerIds, t \in Types : OnSsVideoStartThrows(p, "track", t)
  \/ \E kind \in SurfaceKinds, p \in PeerIds : PlayReject(kind, p)
  \/ OnError
  \/ OnNotification
  \/ OnCustomMessageError
  \/ OnRoomClosed
  \/ \E from \in PeerIds, localId \in PeerIds, type \in MessageTypes, data \in Texts,
        private \in BOOLEAN, id \in Stamps :
       OnCustomMessage(from, localId, type, data, private, id)
  \/ \E p \in PeerIds, t \in RequestTypes : OnAuthRequest(p, t)
  \/ OnDeviceListUpdated

Next ==
  \/ \E r \in RoomIds : SetRoomId(r)
  \/ ClickInitialize
  \/ FetchResolve
  \/ FetchReject
  \/ InitResolve
  \/ InitReject
  \/ ClickJoin
  \/ JoinResolve
  \/ JoinReject
  \/ ClickLeave
  \/ ClickClose
  \/ LeaveResolve
  \/ CloseResolve
  \/ LeaveReject
  \/ CloseReject
  \/ \E k \in ToggleKinds : ClickToggle(k)
  \/ \E k \in ToggleKinds : ClickToggleNoClient(k)
  \/ \E op \in {"leaveRoom", "closeRoom"} : ClickLeaveOrCloseNoClient(op)
  \/ \E k \in ToggleKinds : ToggleResolve(k)
  \/ \E k \in ToggleKinds : ToggleReject(k)
  \/ Notify
  \/ DismissError
  \/ EmitEarly
  \/ \E panel \in Panels : TogglePanel(panel)
  \/ \E panel \in Panels : ClosePanel(panel)
  \/ \E t \in Texts : SetChatInput(t)
  \/ \E r \in PeerIds \cup {Everyone} : SetChatReceiver(r)
  \/ ClickSendChat
  \/ SendChatResolve
  \/ SendChatReject
  \/ \E i \in 1..MaxChat : ClickRemovePopup(i)
  \/ ClickSendWidget
  \/ SendWidgetResolve
  \/ SendWidgetReject
  \/ \E op \in AuthOps, i \in 1..MaxRequests : ClickAuth(op, i)
  \/ \E op \in AuthOps : AuthResolve(op)
  \/ \E op \in AuthOps : AuthReject(op)
  \/ ClickRefreshDevices
  \/ \E ok \in BOOLEAN, a \in DeviceLists, v \in DeviceLists : ListDevicesResolve(ok, a, v)
  \/ ListDevicesReject
  \/ \E op \in DeviceOps, d \in DeviceIds : ChangeInput(op, d)
  \/ \E op \in DeviceOps : ChangeInputResolve(op)
  \/ \E op \in DeviceOps : ChangeInputReject(op)

\* ------------------------------------------------- focused specifications
\* The same program from the same initial state, each with the operations a
\* group of properties is about; the room id typed is "d".
Start ==
  \/ SetRoomId(<<"d">>)
  \/ ClickInitialize
  \/ FetchResolveWith("tokA")
  \/ InitResolve

\* One session: a single initialization, which succeeds.
StartOnce ==
  \/ SetRoomId(<<"d">>)
  \/ created = 0 /\ InFlight = 0 /\ ClickInitialize
  \/ FetchResolveWith("tokA")
  \/ InitResolve

NextPeers ==
  \/ StartOnce
  \/ OnJoinSuccess
  \/ \E p \in PeerIds, t \in Types : OnNewPeer(p, "Alice", t)
  \/ \E p \in PeerIds : OnPeerLeft(p)
  \/ \E p \in PeerIds : OnPeerMuted(p)
  \/ \E p \in PeerIds : OnPeerUnMuted(p)
  \/ ClickLeave
  \/ LeaveResolve
  \/ OnRoomClosed

SpecPeers == Init /\ [][NextPeers]_vars

\* C1: after any sequence of newPeer and peerLeft notifications since the
\* last teardown, the keys of the participant map are exactly the ids whose
\* most recent notification is newPeer (no stale id, no missing id).
C1_PeersMirrorNotifications ==
  DOMAIN peers = {p \in PeerIds : lastNote[p] = "newPeer"}

\* one participant has left after having joined while another is still present
C1_Witness ==
  /\ lastEvent.name = "peerLeft"
  /\ \E p, q \in PeerIds :
       /\ lastNote[p] = "peerLeft" /\ p \notin DOMAIN peers
       /\ lastNote[q] = "newPeer" /\ q \in DOMAIN peers

\* C8: a joinSuccess or a newPeer of type 'local' enters the joined state, and
\* when one of them has already been delivered the next one leaves isJoined
\* true and adds no participant entry: joinSuccess leaves the participant map
\* as it is, and so does a newPeer for an id the map already holds.
C8_JoinEntryIdempotent ==
  [][LET e == lastEvent'
         entry == e.name = "joinSuccess" \/ (e.name = "newPeer" /\ e.type = "local")
     IN entry =>
          /\ isJoined'
          /\ enteredBy # {} =>
               /\ isJoined
               /\ e.name = "joinSuccess" => peers' = peers
               /\ (e.name = "newPeer" /\ e.peerId \in DOMAIN peers) => peers' = peers
    ]_vars

\* both entry notifications were delivered, the newPeer of type 'local' last,
\* for a participant whose entry has been muted in between
C8_Witness ==
  /\ enteredBy = {"joinSuccess", "newPeer"}
  /\ lastEvent.name = "newPeer" /\ lastEvent.type = "local"
  /\ isJoined
  /\ peers[lastEvent.peerId].muted

\* C9: a participant created by newPeer starts unmuted with the camera on;
\* peerMuted / peerUnMuted for an id in the map set that entry's muted flag to
\* true / false and change no other entry; peerLeft removes the entry and
\* changes no other entry.
C9_PeerEntryLifecycle ==
  [][LET e == lastEvent'
         p == e.peerId
         OthersKept == \A q \in (DOMAIN peers) \ {p} :
                          q \in DOMAIN peers' /\ peers'[q] = peers[q]
     IN /\ (e.name = "newPeer" /\ p \notin DOMAIN peers) =>
              /\ DOMAIN peers' = (DOMAIN peers) \cup {p}
              /\ peers'[p].muted = FALSE /\ peers'[p].cameraOn = TRUE
              /\ OthersKept
        /\ (e.name \in {"peerMuted", "peerUnMuted"} /\ p \in DOMAIN peers) =>
              /\ DOMAIN peers' = DOMAIN peers
              /\ peers'[p].muted = (e.name = "peerMuted")
              /\ peers'[p].peerName = peers[p].peerName
              /\ peers'[p].type = peers[p].type
              /\ peers'[p].cameraOn = peers[p].cameraOn
              /\ OthersKept
        /\ e.name = "peerLeft" =>
              /\ DOMAIN peers' = (DOMAIN peers) \ {p}
              /\ OthersKept
    ]_vars

\* a participant has just been muted while another one in the map is unmuted
C9_Witness ==
  /\ lastEvent.name = "peerMuted"
  /\ lastEvent.peerId \in DOMAIN peers
  /\ peers[lastEvent.peerId].muted
  /\ \E q \in (DOMAIN peers) \ {lastEvent.peerId} : ~peers[q].muted

\* ---------------------------------------------------------------- teardown
\* The in-room notifications are delivered while the session is joined.
NextTeardown ==
  \/ Start
  \/ OnJoinSuccess
  \/ isJoined /\ \E p \in PeerIds : OnNewPeer(p, "Alice", "remote")
  \/ isJoined /\ \E p \in PeerIds : OnSsVideoStart(p, "track", "remote")
  \/ ClickToggle("recording")
  \/ ToggleResolve("recording")
  \/ ClickLeave
  \/ ClickClose
  \/ LeaveResolve
  \/ CloseResolve
  \/ OnRoomClosed

SpecTeardown == Init /\ [][NextTeardown]_vars

\* C2: after a leave, a close or a roomClosed notification the participant
\* map and the screen-share map are empty and isRecording is false.
C2_TeardownEmptiesMaps ==
  lastEvent.name \in Teardowns =>
    /\ peers = EmptyMap
    /\ screenShares = EmptyMap
    /\ isRecording = FALSE

\* C7: every teardown clears the video, audio and screen-share registries and
\* releases the client (null handle, isJoined and isInitialized false).
C7_TeardownReleases ==
  lastEvent.name \in Teardowns =>
    /\ videoRefs = EmptyMap
    /\ audioRefs = EmptyMap
    /\ screenShareRefs = EmptyMap
    /\ vidScaleClient = Null
    /\ ~isJoined
    /\ ~isInitialized

\* -------------------------------------------------------------------- join
\* The join notifications are delivered while the joinRoom call is in flight.
Joining == Calls("joinRoom") # {}

NextJoin ==
  \/ Start
  \/ ClickJoin
  \/ JoinResolve
  \/ JoinReject
  \/ Joining /\ OnJoinSuccess
  \/ Joining /\ OnJoinError
  \/ Joining /\ \E p \in PeerIds, t \in Types : OnNewPeer(p, "Alice", t)

SpecJoin == Init /\ [][NextJoin]_vars

\* C3: after a failed join (joinRoom rejected, or joinError delivered) the
\* session is not joined.
C3_FailedJoinNotJoined ==
  lastEvent.name \in {"joinReject", "joinError"} => ~isJoined

\* C4: after a failed join no client handle is retained.
C4_FailedJoinNoClient ==
  lastEvent.name \in {"joinReject", "joinError"} => vidScaleClient = Null

\* ---------------------------------------------------------- initialization
NextInit ==
  \/ Start
  \/ FetchReject
  \/ InitReject
  \/ ClickJoin
  \/ JoinResolve
  \/ Joining /\ OnJoinSuccess

SpecInit == Init /\ [][NextInit]_vars

\* C10: when the credential fetch or the SDK init fails, initializeSDK ends
\* with an error message set, isInitialized, isJoined and loading false, and
\* without issuing another fetch or init call.
C10_FailedInitReverts ==
  [][lastEvent'.name \in {"fetchReject", "initReject"} =>
       /\ error' # ""
       /\ ~isInitialized'
       /\ ~isJoined'
       /\ ~loading'
       /\ BagCardinality(pending') = BagCardinality(pending) - 1
    ]_vars

\* ------------------------------------------------------------------- media
NextAudio ==
  \/ StartOnce
  \/ OnJoinSuccess
  \/ \E p \in PeerIds, t \in Types : OnNewPeer(p, "Alice", t)
  \/ \E p \in PeerIds : OnPeerLeft(p)
  \/ \E p \in PeerIds, tr \in TrackArgs, t \in Types : OnMicStart(p, tr, t)
  \/ \E p \in PeerIds : OnMicEnd(p)
  \/ OnRoomClosed

SpecAudio == Init /\ [][NextAudio]_vars

\* Camera tracks for every participant; microphone and screen-share tracks
\* for participant 1.
NextAttach ==
  \/ StartOnce
  \/ OnJoinSuccess
  \/ \E p \in PeerIds : OnNewPeer(p, "Alice", "remote")
  \/ \E p \in PeerIds, tr \in TrackArgs : OnVideoStart(p, tr, "remote")
  \/ OnMicStart(1, "track", "remote")
  \/ \E tr \in TrackArgs : OnSsVideoStart(1, tr, "remote")
  \/ OnSsVideoStop(1)

SpecAttach == Init /\ [][NextAttach]_vars

\* C5: local audio is never attached: a micStart whose type is not 'remote'
\* changes no audio surface, and whenever an audio surface comes to hold a
\* stream the step is a micStart of type 'remote' for that participant.
C5_LocalAudioNeverAttached ==
  [][LET e == lastEvent'
     IN /\ (e.name = "micStart" /\ e.type # "remote") => audioRefs' = audioRefs
        /\ \A p \in Playing(audioRefs') :
             (p \notin Playing(audioRefs) \/ audioRefs'[p] # audioRefs[p]) =>
                e.name = "micStart" /\ e.type = "remote" /\ e.peerId = p
    ]_vars

\* a micStart of type 'local' carrying a track was delivered for a participant
\* of type 'local' whose audio surface is registered, and the surface is empty
C5_Witness ==
  /\ lastEvent.name = "micStart" /\ lastEvent.type = "local"
  /\ lastEvent.track # NoTrack
  /\ lastEvent.peerId \in DOMAIN peers /\ peers[lastEvent.peerId].type = "local"
  /\ lastEvent.peerId \in DOMAIN audioRefs
  /\ audioRefs[lastEvent.peerId] = NoStream
  /\ Playing(audioRefs) # {}

\* C6: a track start for an id with no registered surface raises nothing and
\* attaches nothing (the registries and the error message are unchanged); the
\* same notification delivered once the surface is registered attaches the
\* track to it. For screen shares the track is kept in screenShares and the
\* effect attaches it to every registered screen-share surface.
C6_AttachWithoutSurfaceIsNoOp ==
  [][LET e == lastEvent'
         p == e.peerId
     IN /\ e.name = "videoStart" =>
             /\ error' = error
             /\ p \notin DOMAIN videoRefs => refVars' = refVars
             /\ (p \in DOMAIN videoRefs /\ e.track # NoTrack) =>
                   videoRefs'[p] = e.track
        /\ (e.name = "micStart" /\ e.type = "remote") =>
             /\ error' = error
             /\ p \notin DOMAIN audioRefs => refVars' = refVars
             /\ (p \in DOMAIN audioRefs /\ e.track # NoTrack) =>
                   audioRefs'[p] = e.track
        /\ e.name = "ssVideoStart" =>
             /\ error' = error
             /\ <<videoRefs', audioRefs'>> = <<videoRefs, audioRefs>>
             /\ (p \notin DOMAIN screenShareRefs /\ ~isJoined) =>
                   screenShareRefs' = screenShareRefs
             /\ \A q \in DOMAIN screenShareRefs' :
                   (q \in DOMAIN screenShares' /\ screenShares'[q].videoTrack # NoTrack)
                     => screenShareRefs'[q] = screenShares'[q].videoTrack
    ]_vars

\* a videoStart that found no surface earlier was delivered again after the
\* surface registered, and the surface now holds the track
C6_Witness ==
  /\ lastEvent.name = "videoStart"
  /\ <<"video", lastEvent.peerId>> \in missed
  /\ lastEvent.peerId \in DOMAIN videoRefs
  /\ videoRefs[lastEvent.peerId] = lastEvent.track
  /\ lastEvent.track # NoTrack

\* ------------------------------------------------------- credential fetch
\* Initialization alone, with two room ids and every token.
NextFetch ==
  \/ \E r \in {<<"d">>, <<"e">>} : SetRoomId(r)
  \/ ClickInitialize
  \/ FetchResolve
  \/ FetchReject
  \/ InitResolve
  \/ InitReject

SpecFetch == Init /\ [][NextFetch]_vars

\* the number of calls of operation o in flight
Count(o) == BagCardinality([c \in Calls(o) |-> CopiesIn(c, pending)])

\* C11: samvyo.JsSdk.init is invoked only in the step in which a credential
\* fetch succeeds, for the room id that fetch was made for (the one entered
\* when Initialize was clicked) and with the token it returned; when a fetch
\* fails no init call is issued and no client is created, stored or listened to.
C11_InitAfterFetch ==
  [][LET e == lastEvent'
         inits == [c \in Calls("init") |-> CopiesIn(c, pending)]
         inits2 == [c \in {d \in BagToSet(pending') : d.op = "init"}
                      |-> CopiesIn(c, pending')]
     IN /\ e.name = "initializeSDK" =>
              pending' = Issue(CallA("fetch", Null, FALSE,
                                     [NoArg EXCEPT !.roomId = roomId]))
        /\ BagCardinality(inits2) > BagCardinality(inits) =>
              /\ e.name = "fetchResolve"
              /\ e.arg.token \in Tokens
              /\ \E c \in Calls("fetch") :
                   /\ c.arg.roomId = e.arg.roomId
                   /\ pending' =
                        Settle(c) (+) SetToBag({CallA("init", Null, FALSE, e.arg)})
        /\ e.name = "fetchReject" =>
              /\ inits2 = inits
              /\ vidScaleClient' = vidScaleClient
              /\ created' = created
              /\ listeners' = listeners
    ]_vars

\* an init call is in flight with the token of the first fetch, for a room id
\* that is no longer the one in the field, and a later fetch has stored
\* another token meanwhile
C11_Witness ==
  /\ lastEvent.name = "fetchResolve"
  /\ \E c \in Calls("init") :
       /\ c.arg.token # sessionToken /\ c.arg.roomId # roomId
       /\ c.arg # lastEvent.arg

\* ---------------------------------------------------- handler registration
\* Initialization with a client that may emit while its init call is pending.
NextEarly ==
  \/ Start
  \/ EmitEarly
  \/ FetchReject
  \/ InitReject
  \/ ClickJoin
  \/ JoinResolve
  \/ Joining /\ OnJoinSuccess
  \/ OnRoomClosed

SpecEarly == Init /\ [][NextEarly]_vars

\* C12 (as stated): handlers are in place before isInitialized becomes true,
\* and no notification emitted by a client from the start of its
\* initialization onwards goes without a registered handler.
C12_NoNotificationUnhandled ==
  /\ isInitialized => vidScaleClient \in listeners
  /\ ~dropped

\* C12 (amended): the step in which samvyo.JsSdk.init resolves registers the
\* handlers on the client it stores and only then sets isInitialized, so
\* whenever isInitialized is true the stored client has handlers; a
\* notification emitted while the init call is still pending has no handler
\* and changes no state.
C12_HandlersBeforeInitialized ==
  [][LET e == lastEvent'
     IN /\ e.name = "initResolve" =>
              /\ vidScaleClient' # Null
              /\ vidScaleClient' \in listeners'
              /\ vidScaleClient' \notin listeners
              /\ isInitialized'
        /\ isInitialized' => vidScaleClient' \in listeners'
        /\ e.name = "emitEarly" =>
              /\ Calls("init") # {}
              /\ <<sessVars, mapVars, flagVars, refVars, sdkVars, uiVars>>' =
                   <<sessVars, mapVars, flagVars, refVars, sdkVars, uiVars>>
    ]_vars

\* init has just resolved and registered the handlers, after the client had
\* emitted a notification that nothing handled
C12_Witness ==
  /\ lastEvent.name = "initResolve"
  /\ dropped
  /\ isInitialized
  /\ vidScaleClient \in listeners

\* ------------------------------------------------------------ media toggles
\* One session with the four toggles, each clicked again once its call has
\* settled, and a leave.
NextToggle ==
  \/ StartOnce
  \/ OnJoinSuccess
  \/ \E k \in ToggleKinds : Calls(k) = {} /\ ClickToggle(k)
  \/ \E k \in ToggleKinds : ToggleResolve(k)
  \/ \E k \in ToggleKinds : ToggleReject(k)
  \/ ClickLeave
  \/ LeaveResolve

SpecToggle == Init /\ [][NextToggle]_vars

\* One session with the microphone toggle, clicked at any time, and every
\* teardown.
NextMic ==
  \/ StartOnce
  \/ OnJoinSuccess
  \/ ClickToggle("mic")
  \/ ToggleResolve("mic")
  \/ ToggleReject("mic")
  \/ ClickLeave
  \/ LeaveResolve
  \/ OnRoomClosed

SpecMic == Init /\ [][NextMic]_vars

\* C13: a toggle changes no flag and no message when it is clicked; when its
\* SDK call resolves, its own flag becomes the opposite of the value the
\* handler read and no other flag changes; when the call rejects, every flag
\* keeps its value and the toggle's error message is set. No other step
\* changes a flag, except that a leave or close resets isRecording.
C13_FlagFollowsResolution ==
  [][LET e == lastEvent'
         k == e.type
     IN /\ e.name \in ToggleKinds =>
              /\ flagVars' = flagVars /\ error' = error
              /\ BagCardinality(pending') = BagCardinality(pending) + 1
        /\ e.name = "toggleResolve" =>
              /\ isMuted' = IF k = "mic" THEN ~e.flag ELSE isMuted
              /\ isCameraOn' = IF k = "camera" THEN ~e.flag ELSE isCameraOn
              /\ isScreenSharing' = IF k = "share" THEN ~e.flag ELSE isScreenSharing
              /\ isRecording' = IF k = "recording" THEN ~e.flag ELSE isRecording
              /\ error' = error
        /\ e.name = "toggleReject" =>
              /\ flagVars' = flagVars
              /\ error' = ToggleError(k) /\ error' # ""
        /\ flagVars' # flagVars =>
              \/ e.name = "toggleResolve"
              \/ /\ e.name \in {"leaveResolve", "closeResolve"}
                 /\ <<isMuted, isCameraOn, isScreenSharing>>' =
                      <<isMuted, isCameraOn, isScreenSharing>>
    ]_vars

\* the camera toggle has just been rejected while the camera flag is still on
\* and an earlier microphone toggle has resolved
C13_Witness ==
  /\ lastEvent.name = "toggleReject" /\ lastEvent.type = "camera"
  /\ isCameraOn /\ isMuted
  /\ error = ToggleError("camera")

\* C14: a toggle that resolves after the session was torn down (no client
\* is stored any more) changes no flag.
C14_ResultDiscardedAfterTeardown ==
  [][(lastEvent'.name = "toggleResolve" /\ vidScaleClient = Null /\ ~isJoined)
       => flagVars' = flagVars]_vars

\* C17: a second toggleMic is relayed while the first is in flight, with the
\* same value of isMuted in its closure; each resolution sets isMuted to the
\* opposite of the value its own call read, so after two resolutions of calls
\* that read the same value the flag has flipped once.
C17_DoubleToggleFlipsOnce ==
  [][LET e == lastEvent'
         b == burst'
     IN /\ e.name = "mic" => pending' = Issue(Call("mic", vidScaleClient, isMuted))
        /\ (e.name = "toggleResolve" /\ e.type = "mic") => isMuted' = ~e.flag
        /\ (Len(b) >= 2 /\ b[Len(b)] = b[Len(b) - 1]) => isMuted' = ~b[Len(b)]
    ]_vars

\* two microphone toggles were clicked while unmuted, both have resolved, and
\* the microphone is muted
C17_Witness ==
  /\ lastEvent.name = "toggleResolve" /\ lastEvent.type = "mic"
  /\ burst = <<FALSE, FALSE>>
  /\ isMuted
  /\ Calls("mic") = {}

\* ------------------------------------------------------ mid-session errors
\* One session with participants, a screen share and the client's error,
\* notification, customMessageError and roomClosed notifications.
NextErrors ==
  \/ StartOnce
  \/ OnJoinSuccess
  \/ \E p \in PeerIds : OnNewPeer(p, "Alice", "remote")
  \/ OnSsVideoStart(1, "track", "remote")
  \/ OnError
  \/ OnNotification
  \/ OnCustomMessageError
  \/ OnRoomClosed
  \/ DismissError

SpecErrors == Init /\ [][NextErrors]_vars

\* C15: an 'error', 'notification' or 'customMessageError' notification sets
\* the message and changes nothing else (isJoined, isInitialized, the client,
\* the participant and screen-share maps, the flags, the registries); of the
\* client's error notifications only roomClosed takes the session out of the
\* joined state.
C15_ErrorsOnlySurface ==
  [][LET e == lastEvent'
     IN /\ e.name \in {"error", "notification", "customMessageError"} =>
              /\ error' # ""
              /\ <<roomId, isInitialized, isJoined, loading, vidScaleClient>>' =
                   <<roomId, isInitialized, isJoined, loading, vidScaleClient>>
              /\ <<mapVars, flagVars, refVars, sdkVars, uiVars>>' =
                   <<mapVars, flagVars, refVars, sdkVars, uiVars>>
        /\ e.name = "roomClosed" => ~isJoined' /\ ~isInitialized'
        /\ (isJoined /\ ~isJoined') => e.name = "roomClosed"
    ]_vars

\* an 'error' notification has been delivered in a joined session that has
\* participants and a screen share, and the session is as it was
C15_Witness ==
  /\ lastEvent.name = "error"
  /\ error = "Error"
  /\ isJoined /\ isInitialized /\ vidScaleClient # Null
  /\ DOMAIN peers = PeerIds
  /\ screenShares # EmptyMap

\* --------------------------------------------------------- relayed commands
\* One session in which the user works with one group of relayed commands
\* (one of the toggles, the device selects, the chat, the widgets or the join
\* requests), one command at a time, next to the notifications that maintain
\* the entry of participant 1.
Idle == InFlight = 0

\* the groups of commands the user has touched
Touched ==
  {g \in ToggleKinds \cup {"device", "chat", "widget", "auth"} :
     CASE g = "mic" -> isMuted
       [] g = "camera" -> ~isCameraOn
       [] g = "share" -> isScreenSharing
       [] g = "recording" -> isRecording
       [] g = "device" -> showSettings \/ audioDevices # <<>>
       [] g = "chat" -> showChat
       [] g = "widget" -> showWidgets
       [] g = "auth" -> authRequests # <<>>}

Only(g) == Idle /\ Touched \subseteq {g}

NextCommands ==
  \/ StartOnce
  \/ OnJoinSuccess
  \/ OnNewPeer(1, "Alice", "remote")
  \/ OnPeerLeft(1)
  \/ OnPeerMuted(1)
  \/ OnVideoEnd(1)
  \/ \E k \in ToggleKinds : Only(k) /\ ClickToggle(k)
  \/ \E k \in ToggleKinds : ToggleResolve(k)
  \/ \E k \in ToggleKinds : ToggleReject(k)
  \/ Only("device") /\ ~showSettings /\ TogglePanel("settings")
  \/ Only("chat") /\ ~showChat /\ TogglePanel("chat")
  \/ Only("widget") /\ ~showWidgets /\ TogglePanel("widgets")
  \/ Only("device") /\ ListDevicesResolve(TRUE, <<"dev1", "dev2">>, <<"dev1", "dev2">>)
  \/ \E op \in DeviceOps : Only("device") /\ ChangeInput(op, "dev2")
  \/ \E op \in DeviceOps : ChangeInputResolve(op)
  \/ \E op \in DeviceOps : ChangeInputReject(op)
  \/ SetChatInput(<<"d">>)
  \/ Only("chat") /\ ClickSendChat
  \/ SendChatResolve
  \/ SendChatReject
  \/ Only("widget") /\ ClickSendWidget
  \/ SendWidgetResolve
  \/ SendWidgetReject
  \/ Only("auth") /\ OnAuthRequest(1, "moderator")
  \/ \E op \in AuthOps : Only("auth") /\ ClickAuth(op, 1)
  \/ \E op \in AuthOps : AuthResolve(op)
  \/ \E op \in AuthOps : AuthReject(op)
  \/ Idle /\ ClickLeave
  \/ LeaveResolve

SpecCommands == Init /\ [][NextCommands]_vars

Commands ==
  ToggleKinds \cup DeviceOps \cup AuthOps \cup
    {"toggleResolve", "toggleReject", "changeInputResolve", "changeInputReject",
     "sendChatMessage", "sendChatResolve", "sendChatReject", "sendWidget",
     "sendWidgetResolve", "sendWidgetReject", "authResolve", "authReject"}

\* C16: no step of a relayed command (toggle, device switch, send chat or
\* widget message, approve or deny a join request), neither its issue nor its
\* completion, changes the participant map; the map changes only in a newPeer,
\* peerLeft, mute or camera-state notification or in a teardown.
C16_CommandsKeepPeers ==
  [][LET e == lastEvent'
     IN /\ e.name \in Commands => peers' = peers
        /\ peers' # peers =>
             e.name \in {"newPeer", "peerLeft", "peerMuted", "peerUnMuted",
                         "videoStart", "videoEnd"} \cup Teardowns
    ]_vars

\* the device switch has resolved in a session with a participant present
\* who is muted and has the camera off
C16_Witness ==
  /\ lastEvent.name = "changeInputResolve"
  /\ selectedAudioDeviceId = "dev2"
  /\ 1 \in DOMAIN peers
  /\ peers[1].muted /\ ~peers[1].cameraOn

\* --------------------------------------------------------------------- chat
\* One session with the chat panel: messages typed and sent, chat and other
\* messages received from every participant (participant 1 is the local one),
\* and every teardown.
NextChat ==
  \/ StartOnce
  \/ OnJoinSuccess
  \/ ~showChat /\ TogglePanel("chat")
  \/ \E t \in {<<"d">>, <<" ">>} : SetChatInput(t)
  \/ ClickSendChat
  \/ SendChatResolve
  \/ SendChatReject
  \/ \E from \in PeerIds, type \in {"chat", "other"} :
       OnCustomMessage(from, 1, type, <<"e">>, FALSE, 1)
  \/ ClickLeave
  \/ LeaveResolve
  \/ OnRoomClosed

SpecChat == Init /\ [][NextChat]_vars

\* C18: every step leaves the chat log as it is or appends exactly one entry
\* at its end, the entries before it unchanged and in the same order; a leave,
\* a close and a roomClosed leave the log as it is.
C18_ChatLogAppendOnly ==
  [][/\ \/ chatMessages' = chatMessages
        \/ /\ Len(chatMessages') = Len(chatMessages) + 1
           /\ SubSeq(chatMessages', 1, Len(chatMessages)) = chatMessages
     /\ lastEvent'.name \in Teardowns => chatMessages' = chatMessages
    ]_vars

\* the session has been left with a received entry followed by a sent one in
\* the log
C18_Witness ==
  /\ lastEvent.name = "leaveResolve"
  /\ Len(chatMessages) = MaxChat
  /\ chatMessages[1].from # Me
  /\ chatMessages[Len(chatMessages)].from = Me

\* ------------------------------------------------ authentication requests
\* One session in which join requests arrive and are approved or denied.
NextAuth ==
  \/ StartOnce
  \/ OnJoinSuccess
  \/ \E p \in PeerIds, t \in RequestTypes : OnAuthRequest(p, t)
  \/ \E op \in AuthOps, i \in 1..MaxRequests : ClickAuth(op, i)
  \/ \E op \in AuthOps : AuthResolve(op)
  \/ \E op \in AuthOps : AuthReject(op)

SpecAuth == Init /\ [][NextAuth]_vars

\* the requests of a list that are not from requester r, in their order
RECURSIVE OtherRequests(_, _)
OtherRequests(list, r) ==
  IF list = <<>> THEN <<>>
  ELSE IF Head(list).requesterPeerId = r THEN OtherRequests(Tail(list), r)
       ELSE <<Head(list)>> \o OtherRequests(Tail(list), r)

\* C19: when allowRoomJoin or denyRoomJoin for requester r resolves, the
\* pending list becomes the requests of the other requesters in their order,
\* so none of r remains; when the call rejects, the list is unchanged and an
\* error message is set.
C19_AnsweredRequestsRemoved ==
  [][LET e == lastEvent'
         r == e.peerId
     IN /\ e.name = "authResolve" =>
              /\ \A i \in DOMAIN authRequests' : authRequests'[i].requesterPeerId # r
              /\ authRequests' = OtherRequests(authRequests, r)
        /\ e.name = "authReject" =>
              /\ authRequests' = authRequests
              /\ error' # ""
    ]_vars

\* a request has been answered while the request of another requester stays
\* in the list
C19_Witness ==
  /\ lastEvent.name = "authResolve"
  /\ authRequests # <<>>
  /\ \A i \in DOMAIN authRequests :
       authRequests[i].requesterPeerId # lastEvent.peerId

\* ------------------------------------------------------------ screen shares
\* Sessions with screen-share notifications, ended by a leave.
NextShares ==
  \/ StartOnce
  \/ OnJoinSuccess
  \/ \E p \in PeerIds, tr \in TrackArgs : OnSsVideoStart(p, tr, "remote")
  \/ \E p \in PeerIds : OnSsVideoStop(p)
  \/ ClickLeave
  \/ LeaveResolve

SpecShares == Init /\ [][NextShares]_vars

C21_PhasesConsistent ==
  /\ isJoined => isInitialized
  /\ isInitialized => vidScaleClient # Null

\* ------------------------------------------------------ failed leave / close
NextLeaveFail ==
  \/ StartOnce
  \/ OnJoinSuccess
  \/ isJoined /\ \E p \in PeerIds : OnNewPeer(p, "Alice", "remote")
  \/ isJoined /\ OnVideoStart(1, "track", "remote")
  \/ isJoined /\ OnSsVideoStart(1, "track", "remote")
  \/ ClickToggle("recording")
  \/ ToggleResolve("recording")
  \/ ClickLeave
  \/ ClickClose
  \/ LeaveReject
  \/ CloseReject
  \/ LeaveResolve
  \/ DismissError

SpecLeaveFail == Init /\ [][NextLeaveFail]_vars

\* C22: when the SDK call of leaveRoom or closeRoom rejects, isJoined,
\* isInitialized, the client handle, the participant map, the screen-share
\* map, isRecording and the three surface registries keep their values, and
\* a non-empty error message is set.
C22_FailedLeaveKeepsSession ==
  [][lastEvent'.name \in {"leaveReject", "closeReject"} =>
       /\ UNCHANGED <<isJoined, isInitialized, vidScaleClient>>
       /\ UNCHANGED <<peers, screenShares, isRecording>>
       /\ UNCHANGED refVars
       /\ error' # ""
    ]_vars

\* a leave was rejected during a joined session that is recording, with a
\* participant whose camera and screen-share surfaces hold a track, after the
\* previous error message had been dismissed
C22_Witness ==
  /\ lastEvent.name = "leaveReject"
  /\ error = "Failed to leave room"
  /\ isJoined /\ isInitialized /\ vidScaleClient # Null
  /\ isRecording
  /\ 1 \in DOMAIN peers /\ 1 \in DOMAIN screenShares
  /\ 1 \in Playing(videoRefs) /\ 1 \in Playing(screenShareRefs)

\* ------------------------------------------------------------ track updates
\* Camera tracks for every participant, microphone and screen-share tracks
\* for participant 1, delivered during a joined session.
NextTracks ==
  \/ StartOnce
  \/ OnJoinSuccess
  \/ isJoined /\ \E p \in PeerIds : OnNewPeer(p, "Alice", "remote")
  \/ isJoined /\ \E p \in PeerIds : OnVideoStart(p, "track", "remote")
  \/ isJoined /\ \E p \in PeerIds : OnVideoEnd(p)
  \/ isJoined /\ OnMicStart(1, "track", "remote")
  \/ isJoined /\ OnMicEnd(1)
  \/ isJoined /\ OnSsVideoStart(1, "track", "remote")
  \/ isJoined /\ OnSsVideoStop(1)

SpecTracks == Init /\ [][NextTracks]_vars

\* C23: after videoEnd (micEnd) for a participant whose video (audio) surface
\* is registered, that surface holds no stream; videoStart / videoEnd set the
\* cameraOn flag of that participant's entry to true / false; the surfaces
\* and the entries of every other participant are unchanged.
C23_TrackEndClearsSurface ==
  [][LET e == lastEvent'
         p == e.peerId
         OthersKept ==
           /\ \A q \in (DOMAIN peers) \ {p} :
                q \in DOMAIN peers' /\ peers'[q] = peers[q]
           /\ \A q \in (DOMAIN videoRefs) \ {p} :
                q \in DOMAIN videoRefs' /\ videoRefs'[q] = videoRefs[q]
           /\ \A q \in (DOMAIN audioRefs) \ {p} :
                q \in DOMAIN audioRefs' /\ audioRefs'[q] = audioRefs[q]
     IN /\ e.name = "videoEnd" =>
             /\ p \in DOMAIN videoRefs =>
                  p \in DOMAIN videoRefs' /\ videoRefs'[p] = NoStream
             /\ p \in DOMAIN peers =>
                  p \in DOMAIN peers' /\ peers'[p].cameraOn = FALSE
             /\ OthersKept
        /\ e.name = "micEnd" =>
             /\ p \in DOMAIN audioRefs =>
                  p \in DOMAIN audioRefs' /\ audioRefs'[p] = NoStream
             /\ OthersKept
        /\ e.name = "videoStart" =>
             /\ p \in DOMAIN peers =>
                  p \in DOMAIN peers' /\ peers'[p].cameraOn = TRUE
             /\ OthersKept
    ]_vars

\* a videoEnd was delivered for a participant whose camera had been started:
\* the video surface is empty and cameraOn is false while the audio surface
\* still plays, and another participant's camera is on and playing
C23_Witness ==
  /\ lastEvent.name = "videoEnd"
  /\ LET p == lastEvent.peerId
     IN /\ p \in DOMAIN peers /\ ~peers[p].cameraOn
        /\ p \in DOMAIN videoRefs /\ videoRefs[p] = NoStream
        /\ p \in Playing(audioRefs)
        /\ \E q \in (DOMAIN peers) \ {p} :
             peers[q].cameraOn /\ q \in Playing(videoRefs)

\* -------------------------------------------------------- playback failures
NextPlayback ==
  \/ StartOnce
  \/ OnJoinSuccess
  \/ isJoined /\ \E p \in PeerIds : OnNewPeer(p, "Alice", "remote")
  \/ isJoined /\ \E p \in PeerIds : OnVideoStart(p, "track", "remote")
  \/ isJoined /\ \E p \in PeerIds : OnVideoStartThrows(p, "track", "remote")
  \/ isJoined /\ OnMicStart(1, "track", "remote")
  \/ isJoined /\ OnMicStartThrows(1, "track")
  \/ isJoined /\ OnSsVideoStart(1, "track", "remote")
  \/ isJoined /\ OnSsVideoStartThrows(1, "track", "remote")
  \/ \E kind \in SurfaceKinds, p \in PeerIds : PlayReject(kind, p)
  \/ OnError
  \/ DismissError

SpecPlayback == Init /\ [][NextPlayback]_vars

\* C24: a playback-start failure is suppressed. A rejected play() promise
\* changes nothing at all; an attach that throws leaves the error message,
\* isJoined, isInitialized and the client handle as they are and the handler
\* runs to its end as it does without the failure: for videoStart the entry
\* of that participant gets cameraOn = true, every other entry and the keys
\* of the participant map are unchanged; for micStart and ssVideoStart the
\* participant map is unchanged.
C24_PlaybackFailureSuppressed ==
  [][LET e == lastEvent'
         p == e.peerId
     IN /\ e.name = "playReject" =>
             UNCHANGED <<sessVars, mapVars, flagVars, refVars, sdkVars, uiVars>>
        /\ e.name \in {"videoStartThrew", "micStartThrew", "ssVideoStartThrew"} =>
             /\ error' = error
             /\ UNCHANGED <<isJoined, isInitialized, vidScaleClient>>
             /\ DOMAIN peers' = DOMAIN peers
             /\ \A q \in (DOMAIN peers) \ {p} : peers'[q] = peers[q]
        /\ e.name \in {"micStartThrew", "ssVideoStartThrew"} => peers' = peers
        /\ (e.name = "videoStartThrew" /\ p \in DOMAIN peers) =>
             /\ peers'[p].cameraOn
             /\ peers'[p].peerName = peers[p].peerName
             /\ peers'[p].type = peers[p].type
             /\ peers'[p].muted = peers[p].muted
    ]_vars

\* the attach of a participant's camera track threw before the stream was
\* assigned: the surface holds no stream, the entry says the camera is on,
\* no error message is shown and the session goes on with the participant's
\* screen share playing
C24_Witness ==
  /\ lastEvent.name = "videoStartThrew"
  /\ LET p == lastEvent.peerId
     IN /\ p \in DOMAIN peers /\ peers[p].cameraOn
        /\ p \in DOMAIN videoRefs /\ videoRefs[p] = NoStream
        /\ p \in Playing(screenShareRefs)
  /\ error = ""
  /\ isJoined /\ isInitialized /\ vidScaleClient # Null

\* C25: camera / audio rendering and screen-share rendering are independent.
\* ssVideoStart and ssVideoStop leave the video and audio registries and the
\* participant map unchanged; videoStart, videoEnd, micStart and micEnd leave
\* the screen-share registry and the screen-share map unchanged.
C25_SeparateRegistries ==
  [][LET e == lastEvent'
     IN /\ e.name \in {"ssVideoStart", "ssVideoStop"} =>
             UNCHANGED <<videoRefs, audioRefs, peers>>
        /\ e.name \in {"videoStart", "videoEnd", "micStart", "micEnd"} =>
             UNCHANGED <<screenShareRefs, screenShares>>
    ]_vars

\* a screen-share track has just been attached for a participant whose camera
\* and audio surfaces are playing: the participant holds a camera track and a
\* screen-share track at the same time
C25_Witness ==
  /\ lastEvent.name = "ssVideoStart"
  /\ LET p == lastEvent.peerId
     IN /\ p \in Playing(videoRefs)
        /\ p \in Playing(audioRefs)
        /\ p \in DOMAIN screenShares
        /\ p \in Playing(screenShareRefs)

\* ---------------------------------------------------------- custom messages
\* The local participant has id 1; messages arrive from every participant.
NextMessages ==
  \/ StartOnce
  \/ OnJoinSuccess
  \/ \E from \in PeerIds, type \in MessageTypes, id \in Stamps :
       OnCustomMessage(from, 1, type, <<"e">>, FALSE, id)
  \/ \E i \in 1..MaxChat : ClickRemovePopup(i)

SpecMessages == Init /\ [][NextMessages]_vars

\* C26: a customMessage whose sender is the local participant, or whose type
\* is neither 'widget' nor 'chat', changes no state; from another participant
\* a 'widget' message appends exactly one popup (from that sender) and leaves
\* the chat log unchanged, and a 'chat' message appends exactly one chat-log
\* entry (from that sender) and leaves the popups unchanged.
C26_CustomMessageDispatch ==
  [][LET e == lastEvent'
         isLocalMessage == e.flag
     IN e.name = "customMessage" =>
          /\ UNCHANGED <<sessVars, mapVars, flagVars, refVars, sdkVars>>
          /\ UNCHANGED <<sessionToken, chatInput, selectedChatReceiver>>
          /\ UNCHANGED <<authRequests, deviceVars, showVars>>
          /\ (isLocalMessage \/ e.type \notin {"widget", "chat"}) =>
               UNCHANGED <<chatMessages, widgetPopups>>
          /\ (~isLocalMessage /\ e.type = "widget") =>
               /\ Len(widgetPopups') = Len(widgetPopups) + 1
               /\ SubSeq(widgetPopups', 1, Len(widgetPopups)) = widgetPopups
               /\ widgetPopups'[Len(widgetPopups')].from = e.peerId
               /\ chatMessages' = chatMessages
          /\ (~isLocalMessage /\ e.type = "chat") =>
               /\ Len(chatMessages') = Len(chatMessages) + 1
               /\ SubSeq(chatMessages', 1, Len(chatMessages)) = chatMessages
               /\ chatMessages'[Len(chatMessages')].from = e.peerId
               /\ widgetPopups' = widgetPopups
    ]_vars

\* the local participant's own 'widget' message came back while a popup and a
\* chat entry received from another participant are held
C26_Witness ==
  /\ lastEvent.name = "customMessage"
  /\ lastEvent.type = "widget"
  /\ lastEvent.flag
  /\ Len(widgetPopups) = 1 /\ widgetPopups[1].from # lastEvent.peerId
  /\ Len(chatMessages) = 1 /\ chatMessages[1].from # lastEvent.peerId

\* C27: sendChatMessage with non-blank input and a client appends exactly one
\* entry from 'me' carrying the input to the chat log in the step that issues
\* the SDK call (and is skipped only when the input is blank or no client is
\* stored); a rejection of the call leaves the log and the input as they
\* are and sets an error message; a resolution clears the input.
C27_OptimisticChatEntry ==
  [][LET e == lastEvent'
     IN /\ e.name = "sendChatSkipped" =>
             Trim(chatInput) = <<>> \/ vidScaleClient = Null
        /\ e.name = "sendChatMessage" =>
             /\ Trim(chatInput) # <<>> /\ vidScaleClient # Null
             /\ Len(chatMessages') = Len(chatMessages) + 1
             /\ SubSeq(chatMessages', 1, Len(chatMessages)) = chatMessages
             /\ chatMessages'[Len(chatMessages')].from = Me
             /\ chatMessages'[Len(chatMessages')].data = chatInput
             /\ BagCardinality(pending') = BagCardinality(pending) + 1
             /\ \E c \in BagToSet(pending') :
                  /\ c.op = "sendChat" /\ c.client = vidScaleClient
                  /\ CopiesIn(c, pending') = CopiesIn(c, pending) + 1
             /\ chatInput' = chatInput
        /\ e.name = "sendChatReject" =>
             /\ chatMessages' = chatMessages
             /\ chatInput' = chatInput
             /\ error' # ""
        /\ e.name = "sendChatResolve" => chatInput' = <<>>
    ]_vars

\* a send was rejected: the entry from 'me' is the last one of the log, after
\* a received one, the input still holds its text and an error is shown
C27_Witness ==
  /\ lastEvent.name = "sendChatReject"
  /\ Len(chatMessages) = 2
  /\ chatMessages[1].from # Me
  /\ chatMessages[2].from = Me /\ chatMessages[2].data = chatInput
  /\ Trim(chatInput) # <<>>
  /\ error = "Failed to send message"

\* ------------------------------------------------------ commands, no client
\* A session that is closed by the moderator, after which the released
\* client still delivers joinSuccess: the controls are rendered again while
\* no client is stored. One command group per run, as in SpecCommands.
NextNull ==
  \/ StartOnce
  \/ OnJoinSuccess
  \/ Idle /\ OnRoomClosed
  \/ InvokeJoin
  \/ Touched = {} /\ ClickJoin
  \/ JoinResolve
  \/ \E k \in ToggleKinds : Only(k) /\ ClickToggle(k)
  \/ \E k \in ToggleKinds : ToggleResolve(k)
  \/ \E k \in ToggleKinds : Touched = {} /\ ClickToggleNoClient(k)
  \/ Touched = {} /\ ClickLeave
  \/ LeaveResolve
  \/ \E op \in {"leaveRoom", "closeRoom"} : Touched = {} /\ ClickLeaveOrCloseNoClient(op)
  \/ Only("device") /\ ~showSettings /\ TogglePanel("settings")
  \/ Only("chat") /\ ~showChat /\ TogglePanel("chat")
  \/ Only("widget") /\ ~showWidgets /\ TogglePanel("widgets")
  \/ Only("device") /\ ListDevicesResolve(TRUE, <<"dev1", "dev2">>, <<"dev1", "dev2">>)
  \/ \E op \in DeviceOps : Only("device") /\ ChangeInput(op, "dev2")
  \/ \E op \in DeviceOps : ChangeInputResolve(op)
  \/ SetChatInput(<<"d">>)
  \/ Only("chat") /\ ClickSendChat
  \/ SendChatResolve
  \/ Only("widget") /\ ClickSendWidget
  \/ SendWidgetResolve
  \/ Only("auth") /\ OnAuthRequest(1, "moderator")
  \/ \E op \in AuthOps : Only("auth") /\ ClickAuth(op, 1)
  \/ \E op \in AuthOps : AuthResolve(op)

SpecNull == Init /\ [][NextNull]_vars

\* the steps that issue a call on the client, and the invocations of a
\* command handler (issued or not)
Issues ==
  ToggleKinds \cup DeviceOps \cup AuthOps \cup
    {"sendChatMessage", "sendWidget", "leaveRoom", "closeRoom", "joinRoom"}

Skips ==
  {"toggleSkipped", "changeInputSkipped", "sendChatSkipped", "sendWidgetSkipped",
   "authSkipped", "leaveSkipped"}

\* C28: a step that issues a client call is taken with a stored client and
\* adds one call on that client (a join also needs isInitialized); with no
\* client stored an invocation of a toggle, device switch, send chat, send
\* widget, approve, deny, leave or close issues no call and changes no state;
\* joinRoom invoked with no client or with isInitialized false issues no
\* call, leaves loading as it is and changes only the error message, which
\* becomes 'SDK not initialized'.
C28_NoCallThroughNullClient ==
  [][LET e == lastEvent'
     IN /\ e.name \in Issues =>
             /\ vidScaleClient # Null
             /\ e.name = "joinRoom" => isInitialized
             /\ \E c \in BagToSet(pending') :
                  /\ c.client = vidScaleClient
                  /\ pending' = Issue(c)
        /\ (vidScaleClient = Null /\ e.name \in Issues \cup Skips) =>
             /\ e.name \in Skips
             /\ UNCHANGED <<sessVars, mapVars, flagVars, refVars, sdkVars, uiVars>>
        /\ e.name = "joinNotInitialized" =>
             /\ vidScaleClient = Null \/ ~isInitialized
             /\ error' = "SDK not initialized"
             /\ UNCHANGED <<roomId, isInitialized, isJoined, loading, vidScaleClient>>
             /\ UNCHANGED <<mapVars, flagVars, refVars, sdkVars, uiVars>>
        /\ ((vidScaleClient = Null \/ ~isInitialized)
              /\ e.name \in {"joinRoom", "joinNotInitialized"}) =>
             e.name = "joinNotInitialized"
    ]_vars

\* a device switch was asked for in the settings panel while the controls are
\* rendered and no client is stored: nothing was issued
C28_Witness ==
  /\ lastEvent.name = "changeInputSkipped"
  /\ isJoined
  /\ vidScaleClient = Null
  /\ InFlight = 0
  /\ selectedAudioDeviceId = "dev1"

\* -------------------------------------------------- initialization in flight
\* C29: while an initializeSDK call is in flight (its token fetch or its
\* samvyo.JsSdk.init call is pending) loading is true, and at most one client
\* instance has handlers registered.
C29_LoadingWhileInitializing ==
  /\ (Calls("fetch") \cup Calls("init") # {}) => loading
  /\ Cardinality(listeners) <= 1

\* ------------------------------------------------------------- join, ending
\* The join session of SpecJoin in which a pending joinRoom promise settles:
\* the SDK call resolves or rejects. Nothing obliges the SDK to deliver a
\* notification, so none is stated as fair.
SpecJoinLive == Init /\ [][NextJoin]_vars /\ WF_vars(JoinResolve \/ JoinReject)

\* C30: once joinRoom has set loading to true, loading eventually returns to
\* false.
C30_LoadingEventuallyCleared ==
  (lastEvent.name = "joinRoom" /\ loading) ~> ~loading

\* ------------------------------------------------- status of unknown peers
\* Participant 1 joins (under either name and type, also repeatedly) and
\* leaves; the status notifications arrive for every id, so also for ids the
\* participant map does not hold.
NextStatus ==
  \/ StartOnce
  \/ OnJoinSuccess
  \/ isJoined /\ \E n \in PeerNames, t \in Types : OnNewPeer(1, n, t)
  \/ isJoined /\ OnPeerLeft(1)
  \/ isJoined /\ \E p \in PeerIds : OnPeerMuted(p)
  \/ isJoined /\ \E p \in PeerIds : OnPeerUnMuted(p)
  \/ isJoined /\ \E p \in PeerIds : OnVideoStart(p, "track", "remote")
  \/ isJoined /\ \E p \in PeerIds : OnVideoEnd(p)

SpecStatus == Init /\ [][NextStatus]_vars

\* C31: peerMuted, peerUnMuted, videoStart and videoEnd leave the set of keys
\* of the participant map unchanged, and for an id the map does not hold they
\* leave the whole map unchanged.
C31_StatusCreatesNoEntry ==
  [][LET e == lastEvent'
     IN e.name \in {"peerMuted", "peerUnMuted", "videoStart", "videoEnd"} =>
          /\ DOMAIN peers' = DOMAIN peers
          /\ e.peerId \notin DOMAIN peers => peers' = peers
    ]_vars

\* a videoStart was delivered for an id that is not in the participant map
\* while another participant, muted and with the camera off, is in it
C31_Witness ==
  /\ lastEvent.name = "videoStart"
  /\ lastEvent.peerId \notin DOMAIN peers
  /\ \E q \in DOMAIN peers : peers[q].muted /\ ~peers[q].cameraOn

\* C32: a newPeer for an id the participant map already holds leaves that
\* entry (display name, type, muted, cameraOn) and the rest of the map as
\* they are.
C32_RepeatedNewPeerKeepsEntry ==
  [][LET e == lastEvent'
         p == e.peerId
     IN (e.name = "newPeer" /\ p \in DOMAIN peers) =>
          /\ p \in DOMAIN peers'
          /\ peers'[p].peerName = peers[p].peerName
          /\ peers'[p].type = peers[p].type
          /\ peers'[p].muted = peers[p].muted
          /\ peers'[p].cameraOn = peers[p].cameraOn
          /\ peers' = peers
    ]_vars

\* a newPeer of type 'local' was delivered for a participant held as 'Bob' of
\* type 'remote', muted and with the camera off, and the entry is as it was
C32_Witness ==
  /\ lastEvent.name = "newPeer" /\ lastEvent.type = "local"
  /\ LET p == lastEvent.peerId
     IN /\ p \in DOMAIN peers
        /\ peers[p].peerName = "Bob" /\ peers[p].type = "remote"
        /\ peers[p].muted /\ ~peers[p].cameraOn

\* ------------------------------------------------------ departing participant
\* Participants join and leave; participant 1 has camera, microphone and
\* screen-share tracks.
NextDepart ==
  \/ StartOnce
  \/ OnJoinSuccess
  \/ isJoined /\ \E p \in PeerIds : OnNewPeer(p, "Alice", "remote")
  \/ isJoined /\ \E p \in PeerIds : OnPeerLeft(p)
  \/ isJoined /\ OnVideoStart(1, "track", "remote")
  \/ isJoined /\ OnMicStart(1, "track", "remote")
  \/ isJoined /\ OnSsVideoStart(1, "track", "remote")
  \/ isJoined /\ OnSsVideoStop(1)
  \/ ClickLeave
  \/ LeaveResolve

SpecDepart == Init /\ [][NextDepart]_vars

\* C33: peerLeft for participant p removes p from the participant map and
\* from the video and audio registries and leaves the screen-share map and
\* the screen-share registry unchanged; a screen-share entry goes away with
\* ssVideoStop for its id and with a resolved leave.
C33_PeerLeftKeepsShare ==
  [][LET e == lastEvent'
         p == e.peerId
     IN /\ e.name = "peerLeft" =>
             /\ p \notin DOMAIN peers'
             /\ p \notin DOMAIN videoRefs'
             /\ p \notin DOMAIN audioRefs'
             /\ UNCHANGED <<screenShares, screenShareRefs>>
        /\ e.name = "ssVideoStop" => p \notin DOMAIN screenShares'
        /\ e.name = "leaveResolve" => screenShares' = EmptyMap
    ]_vars

\* a participant with playing camera, microphone and screen share has left:
\* the entry and the two surfaces are gone, the screen share is still held
\* and playing, and another participant is present
C33_Witness ==
  /\ lastEvent.name = "peerLeft"
  /\ LET p == lastEvent.peerId
     IN /\ p \notin DOMAIN peers
        /\ p \notin DOMAIN videoRefs /\ p \notin DOMAIN audioRefs
        /\ p \in DOMAIN screenShares
        /\ p \in Playing(screenShareRefs)
        /\ (DOMAIN peers) \ {p} # {}

\* ------------------------------------------------------- session after session
\* Sessions one after the other: initialize, join, toggle, teardown, and
\* initialize again. One initialization at a time; joinSuccess comes from the
\* stored client.
NextRejoin ==
  \/ SetRoomId(<<"d">>)
  \/ InFlight = 0 /\ ClickInitialize
  \/ FetchResolveWith("tokA")
  \/ InitResolve
  \/ vidScaleClient # Null /\ OnJoinSuccess
  \/ \E k \in {"mic", "camera", "share"} : InFlight = 0 /\ ClickToggle(k)
  \/ \E k \in {"mic", "camera", "share"} : ToggleResolve(k)
  \/ InFlight = 0 /\ ClickLeave
  \/ InFlight = 0 /\ ClickClose
  \/ LeaveResolve
  \/ CloseResolve
  \/ InFlight = 0 /\ OnRoomClosed

SpecRejoin == Init /\ [][NextRejoin]_vars

\* C34: a leave, a close and a roomClosed leave isMuted, isCameraOn and
\* isScreenSharing as they are, and so does every step other than the
\* resolution of a toggle: a session joined after a teardown starts with the
\* flags of the session before it.
C34_FlagsSurviveTeardown ==
  [][LET e == lastEvent'
     IN /\ e.name \in Teardowns =>
             UNCHANGED <<isMuted, isCameraOn, isScreenSharing>>
        /\ <<isMuted, isCameraOn, isScreenSharing>>' #
             <<isMuted, isCameraOn, isScreenSharing>> => e.name = "toggleResolve"
    ]_vars

\* the second client's session has just been joined, with no call pending,
\* and the flags are those the first session left: muted, camera off, sharing
C34_Witness ==
  /\ lastEvent.name = "joinSuccess"
  /\ created = 2 /\ vidScaleClient = 2
  /\ isJoined /\ isInitialized
  /\ InFlight = 0
  /\ isMuted /\ ~isCameraOn /\ isScreenSharing

\* ------------------------------------------------------------ blank room id
\* The room id field holds nothing, a blank or "d"; it stays editable while
\* an initialization is in flight.
NextBlank ==
  \/ \E r \in {<<>>, <<" ">>, <<"d">>} : SetRoomId(r)
  \/ ClickInitialize
  \/ InvokeInitialize
  \/ FetchResolveWith("tokA")
  \/ FetchReject
  \/ InitResolve
  \/ InitReject
  \/ DismissError

SpecBlank == Init /\ [][NextBlank]_vars

\* C35: initializeSDK run with a blank room id (empty or blanks only) takes
\* its early return: it issues no fetch and no init call, sets the error
\* message 'Please enter a room ID' and leaves isInitialized, loading, the
\* client handle and everything else as they are; with a room id that is not
\* blank it does not take that return.
C35_BlankRoomIdRejected ==
  [][LET e == lastEvent'
     IN /\ e.name = "initializeBlank" =>
             /\ Trim(roomId) = <<>>
             /\ pending' = pending
             /\ error' = "Please enter a room ID"
             /\ UNCHANGED <<roomId, isInitialized, isJoined, loading, vidScaleClient>>
             /\ UNCHANGED <<mapVars, flagVars, refVars, listeners, created, uiVars>>
        /\ e.name = "initializeSDK" => Trim(roomId) # <<>>
    ]_vars

\* the handler ran with a room id of blanks only while an earlier
\* initialization was still fetching its token: loading is still true and no
\* further call was issued
C35_Witness ==
  /\ lastEvent.name = "initializeBlank"
  /\ roomId = <<" ">>
  /\ loading
  /\ ~isInitialized /\ vidScaleClient = Null
  /\ Count("fetch") = 1 /\ InFlight = 1
  /\ error = "Please enter a room ID"

Spec == Init /\ [][Next]_vars
====
